---- MODULE Spec2Model ----
(***************************************************************************)
(* Order-commit protocol of a pharmacy instance (POST /orders of           *)
(* apis/farmacia_api/routes_orders.py).  Every request is a process; each  *)
(* call to the catalog or orders collection is one atomic step, which is   *)
(* the granularity at which MongoDB interleaves concurrent requests.       *)
(* Money is counted in integer cents, the catalog stores prices rounded    *)
(* to two decimals (scripts/h_generate_catalogs.py).                       *)
(***************************************************************************)
EXTENDS Integers, Sequences, FiniteSets, TLC

\* ------------------------------------------------------------------ bounds
MaxStock == 5
MaxQty   == 3
MaxLines == 2
MaxFails == 1
MaxReloads == 1
MaxOrders == 2
MaxPage == 3
MaxSegment == 6

MaxClock == 7
\* Return codes of a child process: -MaxCode..MaxCode (negative: killed by a signal).
MaxCode == 3

\* ------------------------------------------------------- program constants
NdcLen == 11

Procs == {1, 2}

Digits == {"0", "1", "2", "3", "4", "5", "6", "7", "8", "9"}

\* The product codes used as inputs, with the characters of each.
NdcA     == "00000000001"
NdcB     == "00000000002"
NdcGone  == "00000000009"
NdcShort == "0000000001"
NdcAlpha == "0000000000a"

Rep(ch, n) == [k \in 1..n |-> ch]

Chars == (NdcA     :> (Rep("0", 10) \o <<"1">>)) @@
         (NdcB     :> (Rep("0", 10) \o <<"2">>)) @@
         (NdcGone  :> (Rep("0", 10) \o <<"9">>)) @@
         (NdcShort :> (Rep("0", 9)  \o <<"1">>)) @@
         (NdcAlpha :> (Rep("0", 10) \o <<"a">>))

CatalogCodes == {NdcA, NdcB}

\* ------------------------------------------------------------ pure helpers
Max(a, b) == IF a >= b THEN a ELSE b

Min(a, b) == IF a <= b THEN a ELSE b

RECURSIVE SumSeq(_)
SumSeq(s) == IF s = <<>> THEN 0 ELSE Head(s) + SumSeq(Tail(s))

RECURSIVE Reverse(_)
Reverse(s) == IF s = <<>> THEN <<>> ELSE Append(Reverse(Tail(s)), Head(s))

\* faulty variant: the first applied decrement is forgotten
ReversedTail(dec) == IF dec = <<>> THEN <<>> ELSE Reverse(Tail(dec))
\* reversed(decremented) of both rollback loops
Reversed(dec) == Reverse(dec)

\* faulty variant: the loop is left after the first line
LoopDoneFirst(i, items) == TRUE
\* The loop of step 2 ends after the last line of payload.items.
LoopDone(i, items) == i = Len(items)

\* faulty variant: any code of 11 characters or more
NDC11_RE_Loose(code) == Len(Chars[code]) >= NdcLen
\* NDC11_RE.fullmatch / Field(pattern=r"^\d{11}$")
NDC11_RE(code) ==
    /\ Len(Chars[code]) = NdcLen
    /\ \A k \in 1..Len(Chars[code]) : Chars[code][k] \in Digits

\* Request validation done by the OrderCreate / OrderItem models.
OrderCreate(payload) ==
    /\ \A k \in 1..Len(payload.items) :
          /\ NDC11_RE(payload.items[k].package_ndc_11)
          /\ payload.items[k].quantity >= 1
    /\ payload.discount_pct >= 0
    /\ payload.discount_pct <= 100

\* ndcs = [it.package_ndc_11 for it in payload.items]
Ndcs(payload) == [k \in 1..Len(payload.items) |-> payload.items[k].package_ndc_11]

\* faulty variants: the price is not projected; every requested code is mapped
ProdMapNoPrice(ndcs, cat_price) ==
    [c \in {ndcs[k] : k \in 1..Len(ndcs)} \cap DOMAIN cat_price |-> [price |-> 0]]
ProdMapAll(ndcs, cat_price) ==
    [c \in {ndcs[k] : k \in 1..Len(ndcs)} |->
        [price |-> IF c \in DOMAIN cat_price THEN cat_price[c] ELSE 0]]
\* prod_map = {p["package_ndc_11"]: p for p in prod_cursor} of the find with
\* {"$in": ndcs}; of the projected fields only the price is used afterwards.
ProdMap(ndcs, cat_price) ==
    [c \in {ndcs[k] : k \in 1..Len(ndcs)} \cap DOMAIN cat_price |->
        [price |-> cat_price[c]]]

\* missing = [ndc for ndc in ndcs if ndc not in prod_map]
Missing(ndcs, pm) == SelectSeq(ndcs, LAMBDA c : c \notin DOMAIN pm)

\* faulty variant: no condition on the stock
DecrementFilterAlways(cat, ndc, qty) == ndc \in DOMAIN cat
\* faulty variant: the stock must exceed the quantity
DecrementFilterStrict(cat, ndc, qty) == ndc \in DOMAIN cat /\ cat[ndc] > qty
\* filter {"package_ndc_11": ndc, "stock": {"$gte": qty}} of the decrement
DecrementFilter(cat, ndc, qty) == ndc \in DOMAIN cat /\ cat[ndc] >= qty

\* faulty variant: a line takes one unit whatever its quantity
DecrementIncUnit(s, q) == s - 1
\* {"$inc": {"stock": -qty}} of the decrement
DecrementInc(s, q) == s - q

\* faulty variant: the compensation adds nothing
RollbackIncNothing(s, q) == s
\* {"$inc": {"stock": done_qty}} of the compensation
RollbackInc(s, q) == s + q

\* faulty variant: the stock is not read
AvailableZero(cat, ndc) == 0
\* available = int((doc or {}).get("stock") or 0), reported as max(available, 0)
Available(cat, ndc) == Max(IF ndc \in DOMAIN cat THEN cat[ndc] ELSE 0, 0)

\* unit_price = float(prod.get("price") or 0.0)
UnitPrice(prod) == prod.price

\* faulty variant: the quantity is left out of the line total
LineTotalUnit(unit_price, qty) == unit_price
\* line_total = round(unit_price * qty, 2)
LineTotal(unit_price, qty) == unit_price * qty

\* faulty variant: the discount is truncated
DiscountTruncated(subtotal, pct) == {(subtotal * pct) \div 100}
\* round(subtotal * pct / 100.0, 2): the nearest whole cent; on an exact half
\* cent the binary value of the float decides, so both neighbours are possible.
DiscountAmounts(subtotal, pct) ==
    LET n == subtotal * pct
        q == n \div 100
        r == n % 100
    IN  IF 2 * r < 100 THEN {q}
        ELSE IF 2 * r > 100 THEN {q + 1}
        ELSE {q, q + 1}

\* faulty variant: every line is recorded with quantity 1
ItemsOutUnit(payload, pm) ==
    [k \in 1..Len(payload.items) |->
        LET it == payload.items[k]
            up == UnitPrice(pm[it.package_ndc_11])
        IN  [package_ndc_11 |-> it.package_ndc_11,
             quantity       |-> 1,
             unit_price     |-> up,
             line_total     |-> LineTotal(up, it.quantity)]]
\* items_out built by the loop over payload.items
ItemsOut(payload, pm) ==
    [k \in 1..Len(payload.items) |->
        LET it == payload.items[k]
            up == UnitPrice(pm[it.package_ndc_11])
        IN  [package_ndc_11 |-> it.package_ndc_11,
             quantity       |-> it.quantity,
             unit_price     |-> up,
             line_total     |-> LineTotal(up, it.quantity)]]

Subtotal(items_out) == SumSeq([k \in 1..Len(items_out) |-> items_out[k].line_total])

NoTotals == [items_out |-> <<>>, subtotal |-> 0, pct |-> 0,
             discount_amount |-> 0, total |-> 0]

NoOrder == [order_id |-> 0, confirmed_at |-> 0, items |-> <<>>, subtotal |-> 0,
            discount_pct |-> 0, discount |-> 0, total |-> 0]

NoShortage == [package_ndc_11 |-> "", requested |-> 0, available |-> 0]

NoResponse == [status |-> 0, missing |-> <<>>, shortage |-> NoShortage,
               order |-> NoOrder]

\* order_doc of step 5; the uuid4 of a request is the request's own identity
OrderDoc(p, at, t) ==
    [order_id     |-> p,
     confirmed_at |-> at,
     items        |-> t.items_out,
     subtotal     |-> t.subtotal,
     discount_pct |-> t.pct,
     discount     |-> t.discount_amount,
     total        |-> t.total]

\* ---------------------------------------------------------------- inputs
Line(c, q) == [package_ndc_11 |-> c, quantity |-> q]

GoodLines == {Line(c, q) : c \in CatalogCodes, q \in {1, MaxQty}}

GoodItems == UNION {[1..n -> GoodLines] : n \in 1..MaxLines}

BadItems == {<<>>,
             <<Line(NdcGone, 1)>>,
             <<Line(NdcShort, 1)>>,
             <<Line(NdcAlpha, 1)>>,
             <<Line(NdcA, 0)>>,
             <<Line(NdcA, 1), Line(NdcGone, 1)>>,
             <<Line(NdcGone, 1), Line(NdcB, 1)>>,
             <<Line(NdcA, 1), Line(NdcAlpha, 1)>>}

Payloads == {[items |-> its, discount_pct |-> 10] : its \in GoodItems \cup BadItems}

\* Orders of the requests that compete with the first one: the largest
\* quantity of some products, each product on one line at most.
RivalItems ==
    {its \in UNION {[1..n -> {Line(c, MaxQty) : c \in CatalogCodes}] : n \in 1..MaxLines} :
        \A j, k \in 1..Len(its) : its[j] = its[k] => j = k}

RivalPayloads == {[items |-> its, discount_pct |-> 10] : its \in RivalItems}

\* Stock levels a catalog is loaded with (random.randint(0, 50) in the source).
StockLevels == {0, MaxQty - 1, MaxStock}

\* Inputs of the runs in which the catalog is reloaded while orders are placed.
Prices == {0, 10, 199}

Pcts == {0, 5, 100}

PricedItems == UNION {{<<Line(NdcA, q)>>, <<Line(NdcA, q), Line(NdcB, 1)>>} :
                         q \in {1, MaxQty}}

PricedPayloads == {[items |-> its, discount_pct |-> pct] :
                      its \in PricedItems \cup {<<>>}, pct \in Pcts}

\* now = datetime.now(timezone.utc) of a request: the instants are counted
\* 1, 2, ... in the order the requests take them; 0 is "not taken yet".
UtcNow(taken) == Cardinality({q \in DOMAIN taken : taken[q] # 0}) + 1

\* --------------------------------------------- the services around a pharmacy
\* The pharmacy ids the generator chooses from (_pick_farm, FARM_TO_WWW).
Farms == {"farma_001", "farma_002", "farma_003"}

FarmOrder == <<"farma_001", "farma_002", "farma_003">>

FARM_TO_WWW == [f \in Farms |-> IF f = "farma_001" THEN "001"
                                ELSE IF f = "farma_002" THEN "002" ELSE "003"]

\* The iterations of Runner.loop; every one that posts makes one call.
Attempts == 1..MaxOrders

\* A catalog document: the fields the order route and the aggregation use.
Product(cents, units) == [price |-> cents, stock |-> units]

NoCatalog == [f \in Farms |-> <<>>]

NoPayload == [id_farmacia |-> "", external_order_id |-> <<>>, client_id |-> "",
              discount_pct |-> 0, items |-> <<>>]

\* An HTTP response: status 0 stands for "none yet".
NoReply == [status |-> 0, body |-> <<>>]

\* A create_order call of the orchestrator: its position and locals, the
\* request it forwarded (req: none, sent, served) and, as history, the POSTs it
\* received and sent and the decrements the pharmacy applied and undid for it.
NoCall == [pc |-> "idle", payload |-> NoPayload, base_url |-> "", req |-> "none",
           r |-> NoReply, out |-> NoReply, calls |-> 0, posts |-> 0,
           applied |-> 0, undone |-> 0, failedAt |-> "none"]

NoStats == [attempted |-> 0, created |-> 0, failed_4xx |-> 0, failed_5xx |-> 0,
            failed_timeout |-> 0, no_local_candidate |-> 0]

\* Runner.loop: its position, the iteration it is in and its locals; picked
\* is build_order's farm_id and qty.
NoGen == [pc |-> "end", i |-> 0, picked |-> <<>>, payload |-> NoPayload,
          dec_info |-> <<>>, status |-> 0]

\* A list_products call of the orchestrator: its position, parameters and
\* locals and, as history, how every task's request ended (fetched).
NoAgg == [pc |-> "idle", id_farmacia |-> "", in_stock_only |-> FALSE,
          limit |-> 0, offset |-> 0, farmacia_ids |-> <<>>, tasks |-> <<>>,
          fetched |-> <<>>, results |-> <<>>, combined |-> <<>>,
          response |-> NoReply]

NoGot == [order_id |-> 0, status |-> 0, order |-> NoOrder]

\* OrderOut(**doc): the fields of the response model; extra fields are ignored.
OrderOut(doc) ==
    [order_id     |-> doc.order_id,
     confirmed_at |-> doc.confirmed_at,
     items        |-> doc.items,
     subtotal     |-> doc.subtotal,
     discount_pct |-> doc.discount_pct,
     discount     |-> doc.discount,
     total        |-> doc.total]

CatPrice(cat) == [c \in DOMAIN cat |-> cat[c].price]

CatStock(cat) == [c \in DOMAIN cat |-> cat[c].stock]

\* The loop of step 2 from line k on, run to its end or to the first rejected
\* decrement: the line rejected (0 for none) and the stock at that point.
RECURSIVE DecrementLines(_, _, _)
DecrementLines(st, items, k) ==
    IF k > Len(items) THEN [rejected |-> 0, stock |-> st]
    ELSE IF DecrementFilter(st, items[k].package_ndc_11, items[k].quantity)
         THEN DecrementLines([st EXCEPT ![items[k].package_ndc_11] =
                                            DecrementInc(@, items[k].quantity)],
                             items, k + 1)
         ELSE [rejected |-> k, stock |-> st]

\* r.text: the body of a response as the text that encodes it
Text(body) == [text |-> body]

\* r.json(): the body a text encodes
Json(t) == t.text

\* The response model of POST /orders applied to the stored document: tenant
\* is dropped, external_order_id and client_id are kept.
TenantOrderOut(doc) ==
    [external_order_id |-> doc.external_order_id, client_id |-> doc.client_id]
        @@ OrderOut(doc)

\* create_order of pharmacy `tenant` run from its first line to its answer on
\* catalog `cat`: every answer it can give, with the stock it leaves, the
\* document it inserts and the decrements it applied and took back.
CreateOrderOutcomes(tenant, cat, body, order_id, at) ==
    LET st      == CatStock(cat)
        pm      == ProdMap(Ndcs(body), CatPrice(cat))
        missing == Missing(Ndcs(body), pm)
        loop    == DecrementLines(st, body.items, 1)
        none    == [stock |-> st, doc |-> NoOrder, applied |-> 0, undone |-> 0]
    IN  IF ~(/\ OrderCreate(body)
             /\ body.items # <<>>
             /\ \A k \in 1..Len(body.items) : NDC11_RE(body.items[k].package_ndc_11))
        THEN {[r |-> [status |-> 422, body |-> [detail |-> [message |-> "invalid"]]]]
                @@ none}
        ELSE IF missing # <<>>
        THEN {[r |-> [status |-> 404, body |-> [detail |-> [missing |-> missing]]]]
                @@ none}
        ELSE IF loop.rejected # 0
        THEN LET it == body.items[loop.rejected]
             IN  {[r |-> [status |-> 409,
                          body |-> [detail |->
                              [shortage |->
                                  [package_ndc_11 |-> it.package_ndc_11,
                                   requested      |-> it.quantity,
                                   available      |-> Available(loop.stock,
                                                          it.package_ndc_11)]]]],
                   stock |-> st, doc |-> NoOrder,
                   applied |-> loop.rejected - 1, undone |-> loop.rejected - 1]}
        ELSE LET items_out == ItemsOut(body, pm)
                 subtotal  == Subtotal(items_out)
             IN  {LET doc == [external_order_id |-> body.external_order_id,
                              client_id         |-> body.client_id,
                              tenant            |-> tenant]
                             @@ OrderDoc(order_id, at,
                                  [items_out       |-> items_out,
                                   subtotal        |-> subtotal,
                                   pct             |-> body.discount_pct,
                                   discount_amount |-> discount_amount,
                                   total           |-> subtotal - discount_amount])
                  IN  [r |-> [status |-> 201, body |-> TenantOrderOut(doc)],
                       stock |-> loop.stock, doc |-> doc,
                       applied |-> Len(body.items), undone |-> 0]
                  : discount_amount \in DiscountAmounts(subtotal, body.discount_pct)}

\* Validation of the body by the CreateOrder / ItemIn models.
CreateOrder(payload) ==
    \A k \in 1..Len(payload.items) : payload.items[k].quantity >= 1

\* faulty variant: an unknown id is routed to the first registered pharmacy
BaseUrlDefault(registry, id_farmacia) ==
    IF \E k \in 1..Len(registry) : registry[k] = id_farmacia THEN id_farmacia
    ELSE IF registry = <<>> THEN "" ELSE registry[1]
\* faulty variant: every order is routed to the first registered pharmacy
BaseUrlFirst(registry, id_farmacia) ==
    IF \E k \in 1..Len(registry) : registry[k] = id_farmacia THEN registry[1]
    ELSE ""
\* PHARMACIES.get(payload.id_farmacia): the address of a pharmacy is written
\* as the id of the pharmacy it reaches, "" is None.
BaseUrl(registry, id_farmacia) ==
    IF \E k \in 1..Len(registry) : registry[k] = id_farmacia THEN id_farmacia
    ELSE ""

\* body of the forwarded request: the payload without id_farmacia
ForwardBody(payload) ==
    [items             |-> payload.items,
     external_order_id |-> payload.external_order_id,
     client_id         |-> payload.client_id,
     discount_pct      |-> payload.discount_pct]

\* raise HTTPException(r.status_code, r.text): the answer's body is
\* {"detail": <the text of the pharmacy's body>}
Raise(r) == [status |-> r.status, body |-> [detail |-> Text(r.body)]]

\* doc of lines 148-160
Doc(payload, pharm) ==
    [external_order_id |-> payload.external_order_id,
     farmacia_order_id |-> pharm.order_id,
     id_farmacia       |-> payload.id_farmacia,
     client_id         |-> payload.client_id,
     discount_pct      |-> pharm.discount_pct,
     items             |-> pharm.items,
     subtotal          |-> pharm.subtotal,
     discount          |-> pharm.discount,
     total             |-> pharm.total,
     confirmed_at      |-> pharm.confirmed_at,
     source            |-> "farmahorra"]

\* faulty variant: the exception is swallowed and the call answers 201
UnhandledSwallowed(c, step) ==
    [c EXCEPT !.pc = "done", !.failedAt = step,
              !.out = [status |-> 201, body |-> <<>>]]
\* An exception nothing in create_order catches: the framework answers 500.
Unhandled(c, step) ==
    [c EXCEPT !.pc = "done", !.failedAt = step,
              !.out = [status |-> 500,
                       body |-> [detail |-> [message |-> "Internal Server Error"]]]]

\* faulty variant: a failed forward is sent again
AfterReplyRetry(c) ==
    IF c.r.status = 201 THEN [c EXCEPT !.pc = "insert"]
    ELSE IF c.r.status >= 500 /\ c.posts < 2 THEN [c EXCEPT !.pc = "post"]
    ELSE [c EXCEPT !.pc = "done", !.out = Raise(c.r)]
\* Lines 136-139: a status other than 201 is raised to the caller, a 201 goes
\* on to the orchestrator's own record.
AfterReply(c) ==
    IF c.r.status # 201 THEN [c EXCEPT !.pc = "done", !.out = Raise(c.r)]
    ELSE [c EXCEPT !.pc = "insert"]

\* ----------------------------------------------------- the order generator
\* Config defaults of the job.
max_qty == 2

discount_pct == 5

orders_target == MaxOrders

\* _rand_client_id: CLI-001 .. CLI-<clients_max>; one of them stands for all.
Clients == {"CLI-001"}

PoolItem(ndc, units) == [package_ndc_11 |-> ndc, stock |-> units]

\* faulty variant: every product of the pool is a candidate
CandidatesAny(pool, qty) == 1..Len(pool)
\* _select_candidate: the indices of the products with stock >= qty
Candidates(pool, qty) == {i \in 1..Len(pool) : pool[i].stock >= qty}

\* Ticks of the clock in one second of time.perf_counter().
TicksPerSecond == 3

\* QPS_MAX values of a run, in tenths of a request per second.
QpsTenths == {5, 15, 30}

\* faulty variant: the configured rate is taken as it is, in whole requests
MinIntervalWhole(qps) == TicksPerSecond \div Max(1, qps \div 10)
\* self.qps_max = max(0.1, qps_max); self.min_interval = 1.0 / self.qps_max,
\* in ticks, for a rate given in tenths
MinInterval(qps) == (10 * TicksPerSecond) \div Max(1, qps)

\* sleep_for = max(0.0, self.min_interval - (now - last_ts))
SleepFor(min_interval, at, last) == Max(0, min_interval - (at - last))

\* The pacing of Runner.loop: its position, the attempt it is in, whether
\* build_order found no candidate, and the locals last_ts, now, sleep_for.
NoPacing == [pc |-> "end", i |-> 0, skip |-> FALSE, last_ts |-> 0, now |-> 0,
             sleep_for |-> 0]

\* seq_start: int = 0, the last YYYYY already used
seq_start == 0

\* The largest number that five digits hold.
Last5 == 99999

DecimalDigit == <<"0", "1", "2", "3", "4", "5", "6", "7", "8", "9">>

\* str(n) of a natural number: its decimal digits.
RECURSIVE Numeral(_)
Numeral(n) ==
    IF n < 10 THEN <<DecimalDigit[n + 1]>>
    ELSE Append(Numeral(n \div 10), DecimalDigit[(n % 10) + 1])

\* f"{n:05d}": the digits of n behind as many zeros as it takes to make five
\* characters; a number of more than five digits is written in full.
Format05d(n) ==
    LET d == Numeral(n)
    IN  [k \in 1..Max(0, 5 - Len(d)) |-> "0"] \o d

\* faulty variant: the counter does not move past its first value
NextCounterStuck(c) == IF c > seq_start THEN c ELSE c + 1
\* _next_counter: self.counter += 1
NextCounter(c) == c + 1

\* payload of build_order; the external id FAC-WWW-YYYYY is kept in parts,
\* yyyyy being the text _next_counter returns
BuildPayload(farm_id, ndc, qty, yyyyy, client_id) ==
    [id_farmacia       |-> farm_id,
     external_order_id |-> <<"FAC", FARM_TO_WWW[farm_id], yyyyy>>,
     client_id         |-> client_id,
     discount_pct      |-> discount_pct,
     items             |-> <<[package_ndc_11 |-> ndc, quantity |-> qty]>>]

\* faulty variant: the last entry is removed
PopLast(pool, i) == [j \in 1..(Len(pool) - 1) |-> pool[j]]
\* list.pop(idx)
Pop(pool, i) == [j \in 1..(Len(pool) - 1) |-> IF j < i THEN pool[j] ELSE pool[j + 1]]

\* faulty variant: the largest quantity is taken off whatever was ordered
ApplyLocalDecrementMax(pools, farm_id, i, qty) ==
    LET pool == pools[farm_id]
        left == pool[i].stock - max_qty
    IN  [pools EXCEPT ![farm_id] =
            IF left <= 0 THEN Pop(pool, i) ELSE [pool EXCEPT ![i].stock = left]]
\* apply_local_decrement
ApplyLocalDecrement(pools, farm_id, i, qty) ==
    LET pool == pools[farm_id]
        left == pool[i].stock - qty
    IN  [pools EXCEPT ![farm_id] =
            IF left <= 0 THEN Pop(pool, i) ELSE [pool EXCEPT ![i].stock = left]]

\* faulty variant: everything that is not a success is a client error
ClassifyAll4xx(stats, status) ==
    IF 200 <= status /\ status < 300 THEN [stats EXCEPT !.created = @ + 1]
    ELSE [stats EXCEPT !.failed_4xx = @ + 1]
\* faulty variant: an attempt without a status counts as created
ClassifyNoStatusCreated(stats, status) ==
    IF status < 300 THEN [stats EXCEPT !.created = @ + 1]
    ELSE IF 400 <= status /\ status < 500 THEN [stats EXCEPT !.failed_4xx = @ + 1]
    ELSE [stats EXCEPT !.failed_5xx = @ + 1]
\* Step 4 of Runner.loop: the counter the status of the attempt adds to.
Classify(stats, status) ==
    IF 200 <= status /\ status < 300 THEN [stats EXCEPT !.created = @ + 1]
    ELSE IF 400 <= status /\ status < 500 THEN [stats EXCEPT !.failed_4xx = @ + 1]
    ELSE IF status >= 500 \/ status = 0 THEN [stats EXCEPT !.failed_5xx = @ + 1]
    ELSE stats

\* if 200 <= status < 300: the attempt succeeded
\* faulty variant: a client error counts as a success too
Is2xxOr4xx(status) == 200 <= status /\ status < 500
Is2xx(status) == 200 <= status /\ status < 300

\* faulty variant: the loop ends after its first iteration
LoopPcOnce(i) == IF i >= 1 THEN "end" ELSE "build"
\* for _ in range(orders_target): where the loop is after iteration i
LoopPc(i) == IF i >= orders_target THEN "end" ELSE "build"

\* ------------------------------------------------ the catalog aggregation
\* limit: int = 200
LimitDefault == 200

\* The order in which a pharmacy's find() returns its catalog.
NdcOrder == <<NdcA, NdcB>>

\* GET /catalog/products of a pharmacy: list(cursor), the whole catalog, one
\* Product per document. Product declares stock: Optional[int] = None, so a
\* document without a stock is answered with "stock": null; an item lists the
\* keys whose value is null in nulls and has no other entry for them.
ListCatalog(cat) ==
    LET InCat(c) == c \in DOMAIN cat
        codes == SelectSeq(NdcOrder, InCat)
    IN  [k \in 1..Len(codes) |->
            IF "stock" \in DOMAIN cat[codes[k]]
            THEN [package_ndc_11 |-> codes[k],
                  price          |-> cat[codes[k]].price,
                  stock          |-> cat[codes[k]].stock,
                  nulls          |-> {}]
            ELSE [package_ndc_11 |-> codes[k],
                  price          |-> cat[codes[k]].price,
                  nulls          |-> {"stock"}]]

\* CatalogClient.fetch_catalog: of the listed items those whose stock is an
\* int > 0, reduced to package_ndc_11 and stock, in the order listed.
fetch_catalog(data) ==
    LET Kept(item) == "stock" \in DOMAIN item /\ item.stock > 0
        kept == SelectSeq(data, Kept)
    IN  [k \in 1..Len(kept) |-> PoolItem(kept[k].package_ndc_11, kept[k].stock)]

\* CatalogClient.preload_pools: one pool per pharmacy from its listing.
preload_pools(cats) == [f \in Farms |-> fetch_catalog(ListCatalog(cats[f]))]

\* if "id_farmacia" not in it: it["id_farmacia"] = fid
Tag(it, fid) ==
    IF "id_farmacia" \in DOMAIN it THEN it ELSE it @@ ("id_farmacia" :> fid)

\* it.get("stock", 0) > 0 raises TypeError when the value is None
StockRaises(it) == "stock" \in it.nulls

\* it.get("stock", 0) > 0
InStock(it) == (IF "stock" \in DOMAIN it THEN it.stock ELSE 0) > 0

\* fetch_catalog after the GET returned r: nothing for a status other than
\* 200, else the items tagged with their pharmacy and filtered if asked (the
\* body of a pharmacy's 200 is always a list). An exception inside, the
\* filter's TypeError included, is caught: except Exception: return [].
FetchCatalog(fid, r, in_stock_only) ==
    IF r.status # 200 THEN <<>>
    ELSE LET items == [k \in 1..Len(r.body) |-> Tag(r.body[k], fid)]
         IN  IF ~in_stock_only THEN items
             ELSE IF \E k \in 1..Len(items) : StockRaises(items[k]) THEN <<>>
             ELSE SelectSeq(items, InStock)

\* faulty variant: an empty result ends the combination
RECURSIVE ExtendUntilEmpty(_)
ExtendUntilEmpty(results) ==
    IF results = <<>> \/ Head(results) = <<>> THEN <<>>
    ELSE Head(results) \o ExtendUntilEmpty(Tail(results))
\* for lst in results: combined.extend(lst)
RECURSIVE Extend(_)
Extend(results) ==
    IF results = <<>> THEN <<>> ELSE Head(results) \o Extend(Tail(results))

\* s[a : b] of Python for a list s: negative bounds count from the end and
\* both are clamped to the list.
PySlice(s, a, b) ==
    LET n == Len(s)
        Clamp(i) == IF i < 0 THEN Max(i + n, 0) ELSE IF i > n THEN n ELSE i
        lo == Clamp(a)
        hi == Clamp(b)
    IN  IF lo < hi THEN SubSeq(s, lo + 1, hi) ELSE <<>>

\* faulty variant: the slice ends at limit
PageEndAtLimit(combined, offset, limit) == PySlice(combined, offset, limit)
\* combined[offset : offset + limit]
Page(combined, offset, limit) == PySlice(combined, offset, offset + limit)

\* [fid for fid in farmacia_ids if fid in PHARMACIES]
Tasks(farmacia_ids, registry) ==
    LET Known(fid) == \E k \in 1..Len(registry) : registry[k] = fid
    IN  SelectSeq(farmacia_ids, Known)

\* ------------------------------------------------- the catalog scripts
\* A Python value given to normalize_package_ndc or returned by it: a str
\* with its characters, None, or an int.
Str(chars) == [type |-> "str", chars |-> chars]

NoneValue == [type |-> "none", chars |-> <<>>]

IntValue(numeral) == [type |-> "int", chars |-> numeral]

NotCalled == [type |-> "pending", chars |-> <<>>]

\* re.fullmatch(r"\d{a}-\d{b}-\d{c}", s): the whole of s is a digits, a dash,
\* b digits, a dash and c digits.
FullMatch(s, a, b, c) ==
    /\ Len(s) = a + b + c + 2
    /\ \A k \in 1..Len(s) :
          IF k = a + 1 \/ k = a + b + 2 THEN s[k] = "-" ELSE s[k] \in Digits

\* s.split("-")
RECURSIVE Split(_)
Split(s) ==
    IF \A k \in 1..Len(s) : s[k] # "-" THEN <<s>>
    ELSE LET at == CHOOSE k \in 1..Len(s) :
                      s[k] = "-" /\ \A j \in 1..(k - 1) : s[j] # "-"
         IN  <<SubSeq(s, 1, at - 1)>> \o Split(SubSeq(s, at + 1, Len(s)))

\* "-".join(parts)
RECURSIVE Join(_)
Join(parts) ==
    IF Len(parts) = 1 THEN parts[1]
    ELSE parts[1] \o <<"-">> \o Join(Tail(parts))

\* faulty variant: the zero is put behind the segment
PadPartBehind(parts, i) == [parts EXCEPT ![i] = @ \o <<"0">>]
\* parts[i] = "0" + parts[i]
PadPart(parts, i) == [parts EXCEPT ![i] = <<"0">> \o @]

\* s.replace("-", "")
RemoveDashes(s) == LET NoDash(ch) == ch # "-" IN SelectSeq(s, NoDash)

normalize_package_ndc(arg) ==
    IF arg.type # "str" THEN NoneValue
    ELSE LET s == arg.chars
             case1 == FullMatch(s, 4, 4, 2)
             case2 == FullMatch(s, 5, 3, 2)
             case3 == FullMatch(s, 5, 4, 1)
             padded == IF case1 THEN <<"0">> \o s
                       ELSE IF case2 THEN Join(PadPart(Split(s), 2))
                       ELSE IF case3 THEN Join(PadPart(Split(s), 3))
                       ELSE s
             clean == RemoveDashes(padded)
         IN  IF ~case1 /\ ~case2 /\ ~case3 /\ ~FullMatch(s, 5, 4, 2)
             THEN NoneValue
             ELSE IF Len(clean) = 11 THEN Str(clean) ELSE NoneValue

\* The package codes given to it: three runs of the digits 1, 2, ... 9, 0
\* with dashes between them, of every length around the four formats;
DigitAt == <<"1", "2", "3", "4", "5", "6", "7", "8", "9", "0">>

Run(from, n) == [k \in 1..n |-> DigitAt[((from + k - 2) % 10) + 1]]

Dashed(a, b, c) ==
    Run(1, a) \o <<"-">> \o Run(a + 1, b) \o <<"-">> \o Run(a + b + 1, c)

Shapes == (3..MaxSegment) \X (2..(MaxSegment - 1)) \X (0..(MaxSegment - 3))

Recognised == {<<4, 4, 2>>, <<5, 3, 2>>, <<5, 4, 1>>, <<5, 4, 2>>}

\* the codes of the four formats with one character replaced, or with one
\* more character in front or behind; codes without dashes; None and an int.
OtherChars == {"a", " ", "-", "0"}

Spoiled ==
    UNION {LET s == Dashed(f[1], f[2], f[3])
           IN  {[s EXCEPT ![k] = ch] : k \in 1..Len(s), ch \in {"a", "-"}}
               \cup {s \o <<ch>> : ch \in OtherChars}
               \cup {<<ch>> \o s : ch \in OtherChars}
           : f \in Recognised}

PackageNdcs ==
    {Str(Dashed(f[1], f[2], f[3])) : f \in Shapes}
    \cup {Str(s) : s \in Spoiled}
    \cup {Str(Run(1, n)) : n \in {0, 10, 11}}
    \cup {NoneValue, IntValue(Run(1, 6))}

\* ------------------------------------------------------ z_run_pipeline.py
\* The scripts of the pipeline, in the order of the list.
scripts ==
    << "scripts/a_download_sets.py",
       "scripts/b_clean_nadac.py",
       "scripts/c_import_ndc_to_mongo.py",
       "scripts/d_clean_ndc.py",
       "scripts/e_normalize_package_ndc.py",
       "scripts/f_add_selling_size.py",
       "scripts/g_join_nadac_with_products.py",
       "scripts/h_generate_catalogs.py" >>

\* What run_tests starts: python -m unittest discover -s tests.
unittest == "unittest discover -s tests"

\* result.returncode of subprocess.run: the exit code of the child, or minus
\* the number of the signal that killed it.
ReturnCodes == (-MaxCode)..MaxCode

\* faulty variant: only a positive exit code counts as a failure
FailedPositive(returncode) == returncode > 0

\* if result.returncode != 0:
Failed(returncode) == returncode # 0

\* The runner before main() is called: no child was run, it has not exited.
\* result and exit hold no value (<<>>) or one (<<code>>).
NoPipeline == [pc |-> "main", i |-> 0, result |-> <<>>, exit |-> <<>>]

\* ----------------------------------------------------------------- state
VARIABLES
    stock,        \* catalog_coll: stock of every product of the catalog
    price,        \* catalog_coll: price of every product, in cents
    orders,       \* orders_coll, in insertion order
    pc,           \* position of every request in create_order
    payload,      \* the request body
    prod_map,     \* prod_map of the request
    idx,          \* line the loop of step 2 is at
    decremented,  \* decremented of the request
    rb,           \* position of the rollback loop in reversed(decremented)
    available,    \* available of the request
    totals,       \* items_out, subtotal, pct, discount_amount, total
    response,     \* the HTTP response of the request, status 0 while running
    faults,       \* storage failures that may still be injected
    reloads,      \* catalog upserts that may still happen
    stock0,       \* history: the stock the catalog was loaded with
    pre,          \* history: stock and number of orders when the request began
    solo,         \* history: no other request was in flight during this one
    net,          \* history: quantity the request has subtracted and not added back
    decs,         \* history: decrements the request applied
    incs,         \* history: compensations the request applied
    rejStock,     \* history: stock of the short product when the decrement was rejected
    readPrice,    \* history: catalog prices when the request read the catalog
    failedAt,     \* history: the step at which a storage failure hit the request
    now           \* now of the request, the confirmed_at of its order

\* State of the other services: the orchestrator, the pharmacies it routes to
\* and the order generator.
VARIABLES
    PHARMACIES,         \* orchestrator: the registered pharmacy ids, in order
    catalog_coll,       \* catalog_<id> of every pharmacy: price and stock
    orders_coll,        \* orders_<id> of every pharmacy, in insertion order
    orders_farmahorra,  \* the orchestrator's own collection
    call,               \* orchestrator: the create_order call of every attempt
    outages,            \* network and storage failures that may still happen
    pools,              \* generator: the local catalog pools
    counter,            \* generator: OrderBuilder.counter
    stats,              \* generator: Runner.stats
    gen,                \* generator: position and locals of Runner.loop
    agg,                \* orchestrator: the list_products call
    got,                \* pharmacy: answer of the last get_order
    listed,             \* pharmacy: answer of the last list_orders
    seen,               \* history: the first answer of get_order for every id
    package_ndc,        \* normalize_package_ndc: its argument
    clean_ndc,          \* normalize_package_ndc: what it returned
    clock,              \* time.perf_counter(), in ticks
    qps_max,            \* generator: QPS_MAX of the run, in tenths
    pace,               \* generator: position and locals of the pacing
    starts,             \* history: when every POST began, and after what
    pipeline,           \* z_run_pipeline: position, script index, result, exit code
    ran                 \* history: every child started and how it ended

\* The state of the scripts that prepare the catalogs.
etl == <<package_ndc, clean_ndc, pipeline, ran>>

\* The clock and the pacing of the order generator.
pacing == <<clock, qps_max, pace, starts>>

outside == <<PHARMACIES, catalog_coll, orders_coll, orders_farmahorra, call,
             outages, pools, counter, stats, gen, agg, got, listed, seen, etl, pacing>>

inside == <<stock, price, orders, pc, payload, prod_map, idx, decremented, rb,
            available, totals, response, faults, reloads, stock0, pre, solo, net,
            decs, incs, rejStock, readPrice, failedAt, now>>

vars == <<inside, outside>>

locals == <<payload, prod_map, idx, decremented, rb, available, totals>>

InFlight(q) == pc[q] \notin {"start", "done"}

NoNet == [c \in CatalogCodes |-> 0]

InitRequests ==
    /\ orders = <<>>
    /\ pc = [p \in Procs |-> "start"]
    /\ prod_map = [p \in Procs |-> <<>>]
    /\ idx = [p \in Procs |-> 0]
    /\ decremented = [p \in Procs |-> <<>>]
    /\ rb = [p \in Procs |-> 0]
    /\ available = [p \in Procs |-> 0]
    /\ totals = [p \in Procs |-> NoTotals]
    /\ response = [p \in Procs |-> NoResponse]
    /\ faults = MaxFails
    /\ stock0 = stock
    /\ pre = [p \in Procs |-> [stock |-> stock, orders |-> 0]]
    /\ solo = [p \in Procs |-> FALSE]
    /\ net = [p \in Procs |-> NoNet]
    /\ decs = [p \in Procs |-> 0]
    /\ incs = [p \in Procs |-> 0]
    /\ rejStock = [p \in Procs |-> 0]
    /\ readPrice = [p \in Procs |-> price]
    /\ failedAt = [p \in Procs |-> "none"]
    /\ now = [p \in Procs |-> 0]

\* The services around the pharmacy are not running.
NoOrchestrator ==
    /\ PHARMACIES = <<>>
    /\ catalog_coll = NoCatalog
    /\ orders_coll = [f \in Farms |-> <<>>]
    /\ orders_farmahorra = <<>>
    /\ call = [n \in Attempts |-> NoCall]
    /\ outages = 0
    /\ agg = NoAgg

NoGenerator ==
    /\ pools = [f \in Farms |-> <<>>]
    /\ counter = 0
    /\ stats = NoStats
    /\ gen = NoGen

NoEtl ==
    /\ package_ndc = NoneValue
    /\ clean_ndc = NotCalled
    /\ pipeline = NoPipeline
    /\ ran = <<>>

NoPace ==
    /\ clock = 0
    /\ qps_max = 0
    /\ pace = NoPacing
    /\ starts = <<>>

NoReads ==
    /\ got = NoGot
    /\ listed = <<>>
    /\ seen = [p \in Procs |-> NoOrder]

Init ==
    /\ NoOrchestrator /\ NoGenerator /\ NoReads /\ NoEtl /\ NoPace
    /\ stock \in [CatalogCodes -> StockLevels]
    /\ price = [c \in CatalogCodes |-> IF c = NdcA THEN 1000 ELSE 250]
    /\ payload \in {f \in [Procs -> Payloads] :
                       \A p \in Procs \ {1} : f[p] \in RivalPayloads}
    /\ reloads = 0
    /\ InitRequests

\* The pharmacy serves orders while the catalog loader runs again.
InitCatalog ==
    /\ NoOrchestrator /\ NoGenerator /\ NoReads /\ NoEtl /\ NoPace
    /\ stock = [c \in CatalogCodes |-> MaxStock]
    /\ price \in [CatalogCodes -> Prices]
    /\ payload \in {f \in [Procs -> PricedPayloads] :
                       \A p \in Procs \ {1} :
                          f[p] = [items |-> <<>>, discount_pct |-> 0]}
    /\ reloads = MaxReloads
    /\ InitRequests

\* ---------------------------------------------------------------- actions
Respond(p, r) ==
    /\ pc' = [pc EXCEPT ![p] = "done"]
    /\ response' = [response EXCEPT ![p] = r]

\* Validation of the body and lines 121-127: 422 before any catalog access.
Receive(p) ==
    /\ pc[p] = "start"
    /\ pre' = [pre EXCEPT ![p] = [stock |-> stock, orders |-> Len(orders)]]
    /\ solo' = [q \in Procs |->
                  IF q = p THEN \A o \in Procs \ {p} : ~InFlight(o)
                  ELSE IF InFlight(q) THEN FALSE ELSE solo[q]]
    /\ IF /\ OrderCreate(payload[p])
          /\ payload[p].items # <<>>
          /\ \A k \in 1..Len(payload[p].items) :
                NDC11_RE(payload[p].items[k].package_ndc_11)
       THEN /\ pc' = [pc EXCEPT ![p] = "find"]
            /\ now' = [now EXCEPT ![p] = UtcNow(now)]
            /\ UNCHANGED response
       ELSE /\ Respond(p, [NoResponse EXCEPT !.status = 422])
            /\ UNCHANGED now
    /\ UNCHANGED outside
    /\ UNCHANGED <<stock, price, orders, locals, faults, reloads, stock0, net,
                   decs, incs, rejStock, readPrice, failedAt>>

\* Lines 138-148: the single catalog read; 404 when a code is not there.
FindProducts(p) ==
    /\ pc[p] = "find"
    /\ LET pm == ProdMap(Ndcs(payload[p]), price)
           missing == Missing(Ndcs(payload[p]), pm)
       IN  /\ prod_map' = [prod_map EXCEPT ![p] = pm]
           /\ IF missing # <<>>
              THEN /\ Respond(p, [NoResponse EXCEPT !.status = 404,
                                                    !.missing = missing])
                   /\ UNCHANGED idx
              ELSE /\ pc' = [pc EXCEPT ![p] = "update"]
                   /\ idx' = [idx EXCEPT ![p] = 1]
                   /\ UNCHANGED response
    /\ readPrice' = [readPrice EXCEPT ![p] = price]
    /\ UNCHANGED <<now, outside>>
    /\ UNCHANGED <<stock, price, orders, payload, decremented, rb, available,
                   totals, faults, reloads, stock0, pre, solo, net, decs, incs,
                   rejStock, failedAt>>

\* Lines 152-163 and 189-213: the conditional decrement of one line and, when
\* it is applied, the totals recomputed before the loop goes on.
UpdateOne(p) ==
    /\ pc[p] = "update"
    /\ LET it  == payload[p].items[idx[p]]
           ndc == it.package_ndc_11
           qty == it.quantity
       IN  IF DecrementFilter(stock, ndc, qty)
           THEN /\ stock' = [stock EXCEPT ![ndc] = DecrementInc(@, qty)]
                /\ decremented' = [decremented EXCEPT ![p] = Append(@, <<ndc, qty>>)]
                /\ net' = [net EXCEPT ![p][ndc] = @ + qty]
                /\ decs' = [decs EXCEPT ![p] = @ + 1]
                /\ LET items_out == ItemsOut(payload[p], prod_map[p])
                       subtotal  == Subtotal(items_out)
                       pct       == payload[p].discount_pct
                   IN  \E discount_amount \in DiscountAmounts(subtotal, pct) :
                          totals' = [totals EXCEPT ![p] =
                              [items_out       |-> items_out,
                               subtotal        |-> subtotal,
                               pct             |-> pct,
                               discount_amount |-> discount_amount,
                               total           |-> subtotal - discount_amount]]
                /\ IF LoopDone(idx[p], payload[p].items)
                   THEN /\ pc' = [pc EXCEPT ![p] = "insert"]
                        /\ UNCHANGED idx
                   ELSE /\ idx' = [idx EXCEPT ![p] = @ + 1]
                        /\ UNCHANGED pc
                /\ UNCHANGED rejStock
           ELSE /\ pc' = [pc EXCEPT ![p] = "reread"]
                /\ rejStock' = [rejStock EXCEPT ![p] =
                                   IF ndc \in DOMAIN stock THEN stock[ndc] ELSE 0]
                /\ UNCHANGED <<stock, decremented, net, decs, totals, idx>>
    /\ UNCHANGED <<now, outside>>
    /\ UNCHANGED <<price, orders, payload, prod_map, rb, available, response,
                   faults, reloads, stock0, pre, solo, incs, readPrice, failedAt>>

\* faulty variant: the shortage names the first line of the order
ConflictFirstLine(p, avail) ==
    [NoResponse EXCEPT !.status = 409,
                       !.shortage = [package_ndc_11 |-> payload[p].items[1].package_ndc_11,
                                     requested      |-> payload[p].items[1].quantity,
                                     available      |-> avail]]
\* The 409 raised at lines 176-187 once the rollback loop is over.
Conflict(p, avail) ==
    [NoResponse EXCEPT !.status = 409,
                       !.shortage = [package_ndc_11 |-> payload[p].items[idx[p]].package_ndc_11,
                                     requested      |-> payload[p].items[idx[p]].quantity,
                                     available      |-> avail]]

\* Lines 165-166: the fresh read of the stock after a rejected decrement.
FindOne(p) ==
    /\ pc[p] = "reread"
    /\ LET avail == Available(stock, payload[p].items[idx[p]].package_ndc_11)
       IN  /\ available' = [available EXCEPT ![p] = avail]
           /\ IF Reversed(decremented[p]) = <<>>
              THEN /\ Respond(p, Conflict(p, avail))
                   /\ UNCHANGED rb
              ELSE /\ pc' = [pc EXCEPT ![p] = "rollback"]
                   /\ rb' = [rb EXCEPT ![p] = 1]
                   /\ UNCHANGED response
    /\ UNCHANGED <<now, outside>>
    /\ UNCHANGED <<stock, price, orders, payload, prod_map, idx, decremented,
                   totals, faults, reloads, stock0, pre, solo, net, decs, incs,
                   rejStock, readPrice, failedAt>>

\* One compensating update of a loop over reversed(decremented).
Compensate(p) ==
    LET done == Reversed(decremented[p])[rb[p]]
    IN  /\ stock' = [stock EXCEPT ![done[1]] = RollbackInc(@, done[2])]
        /\ net' = [net EXCEPT ![p][done[1]] = @ - done[2]]
        /\ incs' = [incs EXCEPT ![p] = @ + 1]

\* Lines 169-187: one step of the rollback loop; the 409 follows the last one.
RollbackOne(p) ==
    /\ pc[p] = "rollback"
    /\ Compensate(p)
    /\ IF rb[p] = Len(Reversed(decremented[p]))
       THEN /\ Respond(p, Conflict(p, available[p]))
            /\ UNCHANGED rb
       ELSE /\ rb' = [rb EXCEPT ![p] = @ + 1]
            /\ UNCHANGED <<pc, response>>
    /\ UNCHANGED <<now, outside>>
    /\ UNCHANGED <<price, orders, payload, prod_map, idx, decremented, available,
                   totals, faults, reloads, stock0, pre, solo, decs, rejStock,
                   readPrice, failedAt>>

\* Lines 215-232: the insert of the order document and the 201.
InsertOne(p) ==
    /\ pc[p] = "insert"
    /\ orders' = Append(orders, OrderDoc(p, now[p], totals[p]))
    /\ Respond(p, [NoResponse EXCEPT !.status = 201,
                                     !.order = OrderDoc(p, now[p], totals[p])])
    /\ UNCHANGED <<now, outside>>
    /\ UNCHANGED <<stock, price, locals, faults, reloads, stock0, pre, solo, net,
                   decs, incs, rejStock, readPrice, failedAt>>

\* A storage call raises instead of answering.  The find of line 139 is outside
\* the try and the update of line 240 is inside the handler: the exception
\* leaves create_order and the framework answers 500.  The calls of lines 158,
\* 165, 170 and 229 are inside the try and reach the handler of lines 237-241.
StorageFails(p) ==
    /\ pc[p] \in {"find", "update", "reread", "rollback", "insert", "handler"}
    /\ faults > 0
    /\ faults' = faults - 1
    /\ failedAt' = [failedAt EXCEPT ![p] = pc[p]]
    /\ IF pc[p] \in {"find", "handler"} \/ Reversed(decremented[p]) = <<>>
       THEN /\ Respond(p, [NoResponse EXCEPT !.status = 500])
            /\ UNCHANGED rb
       ELSE /\ pc' = [pc EXCEPT ![p] = "handler"]
            /\ rb' = [rb EXCEPT ![p] = 1]
            /\ UNCHANGED response
    /\ UNCHANGED <<now, outside>>
    /\ UNCHANGED <<stock, price, orders, payload, prod_map, idx, decremented,
                   available, totals, reloads, stock0, pre, solo, net, decs, incs,
                   rejStock, readPrice>>

\* Lines 237-241: one step of the handler's rollback loop; the 500 follows.
HandlerRollbackOne(p) ==
    /\ pc[p] = "handler"
    /\ Compensate(p)
    /\ IF rb[p] = Len(Reversed(decremented[p]))
       THEN /\ Respond(p, [NoResponse EXCEPT !.status = 500])
            /\ UNCHANGED rb
       ELSE /\ rb' = [rb EXCEPT ![p] = @ + 1]
            /\ UNCHANGED <<pc, response>>
    /\ UNCHANGED <<now, outside>>
    /\ UNCHANGED <<price, orders, payload, prod_map, idx, decremented, available,
                   totals, faults, reloads, stock0, pre, solo, decs, rejStock,
                   readPrice, failedAt>>

Next ==
    \E p \in Procs :
        \/ Receive(p)
        \/ FindProducts(p)
        \/ UpdateOne(p)
        \/ FindOne(p)
        \/ RollbackOne(p)
        \/ InsertOne(p)
        \/ StorageFails(p)
        \/ HandlerRollbackOne(p)

Spec == Init /\ [][Next]_vars

\* An order whose third line asks for what its first line took: two
\* decrements are applied before the rejection. The other request is empty
\* or takes one unit of the second product.
ThreeLines ==
    {<<Line(NdcA, 1), Line(NdcB, 1), Line(NdcA, 1)>>,
     <<Line(NdcB, 1), Line(NdcA, 1), Line(NdcA, 1)>>}

InitRollback ==
    /\ NoOrchestrator /\ NoGenerator /\ NoReads /\ NoEtl /\ NoPace
    /\ stock \in [CatalogCodes -> {1, MaxStock}]
    /\ stock[NdcA] = 1
    /\ price = [c \in CatalogCodes |-> IF c = NdcA THEN 1000 ELSE 250]
    /\ payload \in {f \in [Procs -> [items : ThreeLines \cup {<<>>, <<Line(NdcB, 1)>>},
                                    discount_pct : {10}]] :
                       /\ f[1].items \in ThreeLines
                       /\ \A p \in Procs \ {1} : f[p].items \notin ThreeLines}
    /\ reloads = 0
    /\ InitRequests

SpecRollback == InitRollback /\ [][Next]_vars

\* guardar_en_mongodb: the upsert of one catalog item rewrites its price and
\* its stock ({"$set": {**item, "updated_at": now}}); bulk_write applies the
\* items one document at a time.
UpsertProduct(c) ==
    /\ reloads > 0
    /\ reloads' = reloads - 1
    /\ \E precio_venta \in Prices : price' = [price EXCEPT ![c] = precio_venta]
    /\ \E s \in {0, MaxStock} : stock' = [stock EXCEPT ![c] = s]
    /\ UNCHANGED <<now, outside>>
    /\ UNCHANGED <<orders, pc, locals, response, faults, stock0, pre, solo, net,
                   decs, incs, rejStock, readPrice, failedAt>>

NextCatalog ==
    \/ Next
    \/ \E c \in CatalogCodes : UpsertProduct(c)

SpecCatalog == InitCatalog /\ [][NextCatalog]_vars

\* ------------------------------------------------ reads of the order log
\* faulty variant: the most recent order, whatever its id
FindOrderLast(coll, order_id) ==
    IF coll = <<>> THEN NoOrder ELSE coll[Len(coll)]
\* orders_coll.find_one({"order_id": order_id}): the first match, or None
FindOrder(coll, order_id) ==
    IF \E k \in 1..Len(coll) : coll[k].order_id = order_id
    THEN coll[CHOOSE k \in 1..Len(coll) :
                 /\ coll[k].order_id = order_id
                 /\ \A j \in 1..(k - 1) : coll[j].order_id # order_id]
    ELSE NoOrder

\* .sort([("confirmed_at", -1)]): latest first, ties in collection order
RECURSIVE SortConfirmedDesc(_)
SortConfirmedDesc(docs) ==
    IF docs = <<>> THEN <<>>
    ELSE LET k == CHOOSE i \in 1..Len(docs) :
                     /\ \A j \in 1..Len(docs) :
                           docs[j].confirmed_at <= docs[i].confirmed_at
                     /\ \A j \in 1..(i - 1) :
                           docs[j].confirmed_at < docs[i].confirmed_at
             rest == [j \in 1..(Len(docs) - 1) |->
                         IF j < k THEN docs[j] ELSE docs[j + 1]]
         IN  <<docs[k]>> \o SortConfirmedDesc(rest)

\* .skip(offset).limit(limit) of a cursor
SkipLimit(docs, offset, limit) ==
    SubSeq(docs, offset + 1, IF offset + limit < Len(docs)
                             THEN offset + limit ELSE Len(docs))

\* Order ids asked for: those of the requests and one that was never issued.
OrderIds == Procs \cup {Cardinality(Procs) + 1}

\* Lines 275-284: get_order.
GetOrder(order_id) ==
    /\ LET doc == FindOrder(orders, order_id)
       IN  /\ got' = IF doc = NoOrder
                     THEN [order_id |-> order_id, status |-> 404, order |-> NoOrder]
                     ELSE [order_id |-> order_id, status |-> 200,
                           order |-> OrderOut(doc)]
           /\ seen' = IF doc # NoOrder /\ order_id \in DOMAIN seen
                         /\ seen[order_id] = NoOrder
                      THEN [seen EXCEPT ![order_id] = OrderOut(doc)]
                      ELSE seen
    /\ UNCHANGED <<inside, PHARMACIES, catalog_coll, orders_coll,
                   orders_farmahorra, call, outages, pools, counter, stats, gen,
                   agg, listed, etl, pacing>>

\* Lines 245-272: list_orders; since = 0 stands for "not given".
ListOrders(since, limit, offset) ==
    /\ LET found == SelectSeq(orders, LAMBDA doc : doc.confirmed_at >= since)
           page  == SkipLimit(SortConfirmedDesc(found), offset, limit)
       IN  listed' = [k \in 1..Len(page) |-> OrderOut(page[k])]
    /\ UNCHANGED <<inside, PHARMACIES, catalog_coll, orders_coll,
                   orders_farmahorra, call, outages, pools, counter, stats, gen,
                   agg, got, seen, etl, pacing>>

\* Two orders on the same products while the order log is read.
InitOrders ==
    /\ NoOrchestrator /\ NoGenerator /\ NoReads /\ NoEtl /\ NoPace
    /\ stock = [c \in CatalogCodes |-> MaxQty]
    /\ price = [c \in CatalogCodes |-> IF c = NdcA THEN 1000 ELSE 250]
    /\ payload \in {f \in [Procs -> Payloads] :
                       /\ f[1].items \in {<<Line(NdcA, 1)>>, <<Line(NdcB, 1)>>}
                       /\ \A p \in Procs \ {1} :
                             f[p].items \in {<<Line(NdcA, MaxQty)>>,
                                             <<Line(NdcB, MaxQty), Line(NdcA, MaxQty)>>}}
    /\ reloads = 0
    /\ InitRequests

NextOrders ==
    \/ Next
    \/ \E order_id \in OrderIds : GetOrder(order_id)
    \/ \E since \in {0, 2}, limit \in {1, 2}, offset \in {0, 1} :
          ListOrders(since, limit, offset)

SpecOrders == InitOrders /\ [][NextOrders]_vars

\* ------------------------------------------------ the orchestrator's POST
pharmacyStores == <<catalog_coll, orders_coll>>

generator == <<pools, counter, stats, gen>>

reads == <<got, listed, seen>>

\* Lines 118-129: the registry lookup; 404 for an id it does not hold.
OrchCreateOrder(n) ==
    /\ call[n].pc = "recv"
    /\ LET base_url == BaseUrl(PHARMACIES, call[n].payload.id_farmacia)
       IN  call' = [call EXCEPT ![n] =
              IF ~CreateOrder(call[n].payload)
              THEN [@ EXCEPT !.pc = "done",
                             !.out = [status |-> 422,
                                      body |-> [detail |-> [message |-> "invalid"]]]]
              ELSE IF base_url = ""
              THEN [@ EXCEPT !.pc = "done",
                             !.out = [status |-> 404,
                                      body |-> [detail |-> [message |->
                                                   "Farmacia desconocida"]]]]
              ELSE [@ EXCEPT !.pc = "post", !.base_url = base_url]]
    /\ UNCHANGED <<inside, PHARMACIES, pharmacyStores, orders_farmahorra,
                   outages, generator, agg, reads, etl, pacing>>

\* Lines 132-133: the request leaves for the pharmacy.
OrchPost(n) ==
    /\ call[n].pc = "post"
    /\ call' = [call EXCEPT ![n].pc = "await", ![n].req = "sent",
                            ![n].posts = @ + 1]
    /\ UNCHANGED <<inside, PHARMACIES, pharmacyStores, orders_farmahorra,
                   outages, generator, agg, reads, etl, pacing>>

\* The pharmacy's create_order serves the forwarded request.
PharmacyCreateOrder(n) ==
    /\ call[n].req = "sent"
    /\ LET f   == call[n].base_url
           cat == catalog_coll[f]
           at  == UtcNow([k \in Attempts |-> IF call[k].req = "served" THEN 1 ELSE 0])
       IN  \E o \in CreateOrderOutcomes(f, cat, ForwardBody(call[n].payload),
                                         <<f, Len(orders_coll[f]) + 1>>, at) :
              /\ catalog_coll' = [catalog_coll EXCEPT ![f] =
                     [c \in DOMAIN cat |-> [cat[c] EXCEPT !.stock = o.stock[c]]]]
              /\ orders_coll' = IF o.doc = NoOrder THEN orders_coll
                                ELSE [orders_coll EXCEPT ![f] = Append(@, o.doc)]
              /\ call' = [call EXCEPT ![n].req = "served", ![n].r = o.r,
                                      ![n].applied = @ + o.applied,
                                      ![n].undone = @ + o.undone]
    /\ UNCHANGED <<inside, PHARMACIES, orders_farmahorra, outages, generator,
                   agg, reads, etl, pacing>>

\* A storage call of the pharmacy raises: with what was decremented added
\* back by the handler, the request is answered 500 and leaves nothing.
PharmacyFails(n) ==
    /\ call[n].req = "sent"
    /\ outages > 0
    /\ outages' = outages - 1
    /\ call' = [call EXCEPT ![n].req = "served",
                            ![n].r = [status |-> 500,
                                      body |-> [detail |-> [message |->
                                                   "Error al crear el pedido"]]]]
    /\ UNCHANGED <<inside, PHARMACIES, pharmacyStores, orders_farmahorra,
                   generator, agg, reads, etl, pacing>>

\* Lines 136-160: the pharmacy's answer has arrived.
OrchReply(n) ==
    /\ call[n].pc = "await"
    /\ call[n].req = "served"
    /\ call' = [call EXCEPT ![n] = AfterReply(@)]
    /\ UNCHANGED <<inside, PHARMACIES, pharmacyStores, orders_farmahorra,
                   outages, generator, agg, reads, etl, pacing>>

\* hc.post raises (connection error or the 15 s timeout), whether or not the
\* pharmacy has served or will serve the request: nothing catches it and the
\* framework answers 500.
OrchPostRaises(n) ==
    /\ call[n].pc = "await"
    /\ outages > 0
    /\ outages' = outages - 1
    /\ call' = [call EXCEPT ![n] = Unhandled(@, "post")]
    /\ UNCHANGED <<inside, PHARMACIES, pharmacyStores, orders_farmahorra,
                   generator, agg, reads, etl, pacing>>

\* Lines 162-166: the orchestrator's record is inserted and returned.
OrchInsertOne(n) ==
    /\ call[n].pc = "insert"
    /\ LET doc == Doc(call[n].payload, Json(Text(call[n].r.body)))
       IN  /\ orders_farmahorra' = Append(orders_farmahorra, doc)
           /\ call' = [call EXCEPT ![n].pc = "done",
                                   ![n].out = [status |-> 201, body |-> doc]]
    /\ UNCHANGED <<inside, PHARMACIES, pharmacyStores, outages, generator,
                   agg, reads, etl, pacing>>

\* orders.insert_one raises: nothing catches it, the framework answers 500.
OrchInsertFails(n) ==
    /\ call[n].pc = "insert"
    /\ outages > 0
    /\ outages' = outages - 1
    /\ call' = [call EXCEPT ![n] = Unhandled(@, "insert")]
    /\ UNCHANGED <<inside, PHARMACIES, pharmacyStores, orders_farmahorra,
                   generator, agg, reads, etl, pacing>>

\* ---------------------------------------------------------- Runner.loop
\* Lines 86-112 of runner.py: one more iteration; build_order picks a
\* pharmacy, a quantity and a product of the pool, and the order is posted.
GenBuildOrder ==
    /\ gen.pc = "build"
    /\ \E farm_id \in Farms, qty \in 1..Max(1, max_qty) :
          LET pool == pools[farm_id]
              n    == gen.i + 1
          IN  IF Candidates(pool, qty) = {}
              THEN /\ stats' = [stats EXCEPT !.attempted = @ + 1,
                                             !.no_local_candidate = @ + 1]
                   /\ gen' = [gen EXCEPT !.i = n, !.pc = LoopPc(n),
                                         !.picked = <<farm_id, qty>>,
                                         !.payload = NoPayload,
                                         !.dec_info = <<>>,
                                         !.status = 0]
                   /\ UNCHANGED <<counter, call>>
              ELSE \E i \in Candidates(pool, qty), client_id \in Clients :
                      LET body == BuildPayload(farm_id, pool[i].package_ndc_11,
                                               qty, Format05d(NextCounter(counter)),
                                               client_id)
                      IN  /\ counter' = NextCounter(counter)
                          /\ stats' = [stats EXCEPT !.attempted = @ + 1]
                          /\ gen' = [gen EXCEPT !.i = n, !.pc = "wait",
                                                !.picked = <<farm_id, qty>>,
                                                !.payload = body,
                                                !.dec_info = <<farm_id, i, qty>>,
                                                !.status = 0]
                          /\ call' = [call EXCEPT ![n] =
                                         [NoCall EXCEPT !.pc = "recv",
                                                        !.payload = body,
                                                        !.calls = 1]]
    /\ UNCHANGED <<inside, PHARMACIES, pharmacyStores, orders_farmahorra,
                   outages, pools, agg, reads, etl, pacing>>

\* Lines 112 and 121-136: the orchestrator's answer arrives and is counted;
\* a success is taken off the local pool.
GenClassify ==
    /\ gen.pc = "wait"
    /\ call[gen.i].pc = "done"
    /\ LET status == call[gen.i].out.status
       IN  /\ stats' = Classify(stats, status)
           /\ pools' = IF Is2xx(status)
                       THEN ApplyLocalDecrement(pools, gen.dec_info[1],
                                                gen.dec_info[2], gen.dec_info[3])
                       ELSE pools
           /\ gen' = [gen EXCEPT !.status = status, !.pc = LoopPc(gen.i)]
    /\ UNCHANGED <<inside, PHARMACIES, pharmacyStores, orders_farmahorra,
                   call, outages, counter, agg, reads, etl, pacing>>

\* Lines 113-114: requests.Timeout; status stays 0 and step 4 counts it too.
GenTimeout ==
    /\ gen.pc = "wait"
    /\ outages > 0
    /\ outages' = outages - 1
    /\ stats' = Classify([stats EXCEPT !.failed_timeout = @ + 1], 0)
    /\ gen' = [gen EXCEPT !.status = 0, !.pc = LoopPc(gen.i)]
    /\ UNCHANGED <<inside, PHARMACIES, pharmacyStores, orders_farmahorra,
                   call, pools, counter, agg, reads, etl, pacing>>

\* Lines 115-117: another requests.RequestException; step 4 counts it again.
GenRequestException ==
    /\ gen.pc = "wait"
    /\ outages > 0
    /\ outages' = outages - 1
    /\ stats' = Classify([stats EXCEPT !.failed_5xx = @ + 1], 0)
    /\ gen' = [gen EXCEPT !.status = 0, !.pc = LoopPc(gen.i)]
    /\ UNCHANGED <<inside, PHARMACIES, pharmacyStores, orders_farmahorra,
                   call, pools, counter, agg, reads, etl, pacing>>

\* No request is sent to the pharmacy directly.
NoPharmacyRequests ==
    /\ stock = [c \in CatalogCodes |-> 0]
    /\ price = [c \in CatalogCodes |-> 0]
    /\ payload = [p \in Procs |-> [items |-> <<>>, discount_pct |-> 0]]
    /\ reloads = 0
    /\ InitRequests

\* Two registered pharmacies and one the orchestrator does not know; pools
\* loaded some time ago: a stock that has since dropped, a product that has
\* since left the catalog, a code that is not an NDC-11.
RouteCatalog ==
    [f \in Farms |->
        IF f = "farma_001" THEN (NdcA :> Product(1000, 1))
        ELSE IF f = "farma_002" THEN (NdcA :> Product(980, 1))
        ELSE (NdcA :> Product(1020, 1))]

InitRoute ==
    /\ NoPharmacyRequests /\ NoReads /\ NoEtl /\ NoPace
    /\ PHARMACIES = <<"farma_001", "farma_002">>
    /\ catalog_coll = RouteCatalog
    /\ orders_coll = [f \in Farms |-> <<>>]
    /\ orders_farmahorra = <<>>
    /\ call = [n \in Attempts |-> NoCall]
    /\ outages = MaxFails
    /\ agg = NoAgg
    /\ pools =
          [f \in Farms |->
              IF f = "farma_001" THEN <<PoolItem(NdcA, 2)>>
              ELSE IF f = "farma_002"
              THEN <<PoolItem(NdcA, 1), PoolItem(NdcGone, 1), PoolItem(NdcAlpha, 1)>>
              ELSE <<PoolItem(NdcA, 1)>>]
    /\ counter = seq_start
    /\ stats = NoStats
    /\ gen = [NoGen EXCEPT !.pc = LoopPc(0)]

\* A run whose mirror was loaded from the catalogs at its start: one product
\* is out of stock and so not mirrored; the orchestrator knows two of the
\* three pharmacies.
MirrorCatalog ==
    [f \in Farms |->
        IF f = "farma_001" THEN (NdcA :> Product(1000, 3) @@ NdcB :> Product(250, 1))
        ELSE IF f = "farma_002" THEN (NdcA :> Product(980, 1) @@ NdcB :> Product(255, 0))
        ELSE (NdcA :> Product(1020, 2))]

InitMirror ==
    /\ NoPharmacyRequests /\ NoReads /\ NoEtl /\ NoPace
    /\ PHARMACIES = <<"farma_001", "farma_002">>
    /\ catalog_coll = MirrorCatalog
    /\ orders_coll = [f \in Farms |-> <<>>]
    /\ orders_farmahorra = <<>>
    /\ call = [n \in Attempts |-> NoCall]
    /\ outages = MaxFails
    /\ agg = NoAgg
    /\ pools = preload_pools(MirrorCatalog)
    /\ counter = seq_start
    /\ stats = NoStats
    /\ gen = [NoGen EXCEPT !.pc = LoopPc(0)]

NextRoute ==
    \/ GenBuildOrder
    \/ GenClassify
    \/ GenTimeout
    \/ GenRequestException
    \/ \E n \in Attempts :
          \/ OrchCreateOrder(n)
          \/ OrchPost(n)
          \/ PharmacyCreateOrder(n)
          \/ PharmacyFails(n)
          \/ OrchReply(n)
          \/ OrchPostRaises(n)
          \/ OrchInsertOne(n)
          \/ OrchInsertFails(n)

SpecRoute == InitRoute /\ [][NextRoute]_vars

SpecMirror == InitMirror /\ [][NextRoute]_vars

\* Runs that start from the default SEQ_START and runs that start two below
\* the last number of five digits.
StartSeqs == {seq_start, Last5 - 1}

InitSeq ==
    /\ NoPharmacyRequests /\ NoReads /\ NoEtl /\ NoPace
    /\ PHARMACIES = <<"farma_001", "farma_002">>
    /\ catalog_coll = RouteCatalog
    /\ orders_coll = [f \in Farms |-> <<>>]
    /\ orders_farmahorra = <<>>
    /\ call = [n \in Attempts |-> NoCall]
    /\ outages = MaxFails
    /\ agg = NoAgg
    /\ pools = preload_pools(RouteCatalog)
    /\ counter \in StartSeqs
    /\ stats = NoStats
    /\ gen = [NoGen EXCEPT !.pc = LoopPc(0)]

SpecSeq == InitSeq /\ [][NextRoute]_vars

\* ------------------------------------------------ the pacing of Runner.loop
\* Everything but the clock and the pacing stays as it is.
PacingOnly ==
    UNCHANGED <<inside, PHARMACIES, pharmacyStores, orders_farmahorra, call,
                outages, generator, agg, reads, etl, qps_max>>

\* Where the pacing goes once it need not sleep (any more).
AfterSleep(skip) == IF skip THEN "stamp" ELSE "post"

\* Lines 86-97 and 104-105: an attempt begins; build_order finds a candidate
\* or none, and either way the loop reads the clock and works out how long
\* it has to sleep.
PaceBegin ==
    /\ pace.pc = "build"
    /\ \E skip \in BOOLEAN :
          LET sleep_for == SleepFor(MinInterval(qps_max), clock, pace.last_ts)
          IN  pace' = [pace EXCEPT !.i = @ + 1,
                                   !.skip = skip,
                                   !.now = clock,
                                   !.sleep_for = sleep_for,
                                   !.pc = IF sleep_for > 0 THEN "sleep"
                                          ELSE AfterSleep(skip)]
    /\ UNCHANGED <<clock, starts>>
    /\ PacingOnly

\* Lines 98-99 and 106-107: time.sleep(sleep_for) returns, no earlier than
\* sleep_for after the clock was read.
PaceSleep ==
    /\ pace.pc = "sleep"
    /\ clock >= pace.now + pace.sleep_for
    /\ pace' = [pace EXCEPT !.pc = AfterSleep(pace.skip)]
    /\ UNCHANGED <<clock, starts>>
    /\ PacingOnly

\* Lines 100-101: a skipped attempt ends, last_ts = time.perf_counter().
PaceStamp ==
    /\ pace.pc = "stamp"
    /\ pace' = [pace EXCEPT !.last_ts = clock, !.pc = LoopPc(pace.i)]
    /\ UNCHANGED <<clock, starts>>
    /\ PacingOnly

\* Lines 110-112: the POST begins.
PacePost ==
    /\ pace.pc = "post"
    /\ starts' = Append(starts, [at |-> clock, after |-> pace.last_ts,
                                 attempt |-> pace.i])
    /\ pace' = [pace EXCEPT !.pc = "wait"]
    /\ UNCHANGED clock
    /\ PacingOnly

\* Lines 113-119: the POST has returned, raised or timed out; finally,
\* last_ts = time.perf_counter().
PaceReturn ==
    /\ pace.pc = "wait"
    /\ pace' = [pace EXCEPT !.last_ts = clock, !.pc = LoopPc(pace.i)]
    /\ UNCHANGED <<clock, starts>>
    /\ PacingOnly

\* Time passes.
PaceTick ==
    /\ clock < MaxClock
    /\ clock' = clock + 1
    /\ UNCHANGED <<pace, starts>>
    /\ PacingOnly

\* The clock of a process just started or of one up for a while; last_ts is
\* 0.0 when the loop begins.
InitPace ==
    /\ NoPharmacyRequests /\ NoOrchestrator /\ NoGenerator /\ NoReads /\ NoEtl
    /\ clock \in {0, TicksPerSecond}
    /\ qps_max \in QpsTenths
    /\ pace = [NoPacing EXCEPT !.pc = LoopPc(0)]
    /\ starts = <<>>

NextPace ==
    \/ PaceBegin
    \/ PaceSleep
    \/ PaceStamp
    \/ PacePost
    \/ PaceReturn
    \/ PaceTick

SpecPace == InitPace /\ [][NextPace]_vars

\* ------------------------------------------- callers of the orchestrator
\* Orders posted to the orchestrator by callers that choose the external
\* order id themselves: one unit of a product, two ids to choose from, for
\* a pharmacy the orchestrator knows or for one it does not know.
ExternalIds == {<<"FAC", "001", Format05d(1)>>, <<"FAC", "001", Format05d(2)>>}

ClientPayloads ==
    {[BuildPayload(f, NdcA, 1, Format05d(1), "CLI-001") EXCEPT !.external_order_id = e] :
        f \in {"farma_001", "farma_003"}, e \in ExternalIds}

\* POST /orders of the orchestrator with a body of the caller's.
ClientPost(n) ==
    /\ call[n].pc = "idle"
    /\ \E body \in ClientPayloads :
          call' = [call EXCEPT ![n] = [NoCall EXCEPT !.pc = "recv",
                                                     !.payload = body,
                                                     !.calls = 1]]
    /\ UNCHANGED <<inside, PHARMACIES, pharmacyStores, orders_farmahorra,
                   outages, generator, agg, reads, etl, pacing>>

\* get_order of the orchestrator: find_one on external_order_id answers one
\* of the records that carry the id, whichever the store meets first, and 404
\* when there is none.
OrchGetOrder(external_order_id) ==
    /\ LET found == {k \in 1..Len(orders_farmahorra) :
                       orders_farmahorra[k].external_order_id = external_order_id}
       IN  IF found = {}
           THEN got' = [order_id |-> external_order_id, status |-> 404,
                        order |-> NoOrder]
           ELSE \E k \in found :
                   got' = [order_id |-> external_order_id, status |-> 200,
                           order |-> orders_farmahorra[k]]
    /\ UNCHANGED <<inside, PHARMACIES, pharmacyStores, orders_farmahorra, call,
                   outages, generator, agg, listed, seen, etl, pacing>>

InitDirect ==
    /\ NoPharmacyRequests /\ NoGenerator /\ NoReads /\ NoEtl /\ NoPace
    /\ PHARMACIES = <<"farma_001", "farma_002">>
    /\ catalog_coll = MirrorCatalog
    /\ orders_coll = [f \in Farms |-> <<>>]
    /\ orders_farmahorra = <<>>
    /\ call = [n \in Attempts |-> NoCall]
    /\ outages = MaxFails
    /\ agg = NoAgg

NextDirect ==
    \/ \E n \in Attempts :
          \/ ClientPost(n)
          \/ OrchCreateOrder(n)
          \/ OrchPost(n)
          \/ PharmacyCreateOrder(n)
          \/ PharmacyFails(n)
          \/ OrchReply(n)
          \/ OrchPostRaises(n)
          \/ OrchInsertOne(n)
          \/ OrchInsertFails(n)
    \/ \E e \in ExternalIds : OrchGetOrder(e)

SpecDirect == InitDirect /\ [][NextDirect]_vars

\* A run against one registered pharmacy whose catalog the mirror was loaded
\* from some time ago; the other pharmacies' mirrors are empty.
InitLoop ==
    /\ NoPharmacyRequests /\ NoReads /\ NoEtl /\ NoPace
    /\ PHARMACIES = <<"farma_001">>
    /\ catalog_coll = RouteCatalog
    /\ orders_coll = [f \in Farms |-> <<>>]
    /\ orders_farmahorra = <<>>
    /\ call = [n \in Attempts |-> NoCall]
    /\ outages = MaxFails
    /\ agg = NoAgg
    /\ pools = [f \in Farms |->
                   IF f = "farma_001" THEN <<PoolItem(NdcA, 2)>> ELSE <<>>]
    /\ counter = seq_start
    /\ stats = NoStats
    /\ gen = [NoGen EXCEPT !.pc = LoopPc(0)]

\* Every request of the generator and of the orchestrator returns a status,
\* raises or times out (requests and httpx are called with a timeout), and
\* the loop goes on whenever it can: no step that can be taken waits forever.
SpecLoop == InitLoop /\ [][NextRoute]_vars /\ WF_vars(NextRoute)

\* ------------------------------------- the orchestrator's GET /products
\* list_products up to the gather: the pharmacies to ask and one fetch_catalog
\* task for each of them that is registered.
ListProducts(id_farmacia, in_stock_only, limit, offset) ==
    /\ agg.pc = "idle"
    /\ LET farmacia_ids == IF id_farmacia # "" THEN <<id_farmacia>> ELSE PHARMACIES
           tasks == Tasks(farmacia_ids, PHARMACIES)
       IN  agg' = [agg EXCEPT !.pc = "gather",
                              !.id_farmacia = id_farmacia,
                              !.in_stock_only = in_stock_only,
                              !.limit = limit,
                              !.offset = offset,
                              !.farmacia_ids = farmacia_ids,
                              !.tasks = tasks,
                              !.fetched = [k \in 1..Len(tasks) |-> "pending"],
                              !.results = [k \in 1..Len(tasks) |-> <<>>]]
    /\ UNCHANGED <<inside, PHARMACIES, pharmacyStores, orders_farmahorra, call,
                   outages, generator, reads, etl, pacing>>

\* Task k's GET is answered: by the pharmacy's catalog route with its whole
\* catalog, or with an error status.
FetchCatalogAnswered(k) ==
    /\ agg.pc = "gather"
    /\ k \in 1..Len(agg.tasks)
    /\ agg.fetched[k] = "pending"
    /\ LET fid == agg.tasks[k]
       IN  \E r \in {[status |-> 200, body |-> ListCatalog(catalog_coll[fid])],
                     [status |-> 500, body |-> [detail |-> "Internal Server Error"]]} :
              agg' = [agg EXCEPT
                        !.fetched[k] = IF r.status = 200 THEN "ok" ELSE "status",
                        !.results[k] = FetchCatalog(fid, r, agg.in_stock_only)]
    /\ UNCHANGED <<inside, PHARMACIES, pharmacyStores, orders_farmahorra, call,
                   outages, generator, reads, etl, pacing>>

\* Task k's GET raises (the pharmacy is down or the 15 s are over): except
\* Exception: return [].
FetchCatalogRaises(k) ==
    /\ agg.pc = "gather"
    /\ k \in 1..Len(agg.tasks)
    /\ agg.fetched[k] = "pending"
    /\ agg' = [agg EXCEPT !.fetched[k] = "raise", !.results[k] = <<>>]
    /\ UNCHANGED <<inside, PHARMACIES, pharmacyStores, orders_farmahorra, call,
                   outages, generator, reads, etl, pacing>>

\* After the gather: combine, slice and answer.
Combine ==
    /\ agg.pc = "gather"
    /\ \A k \in 1..Len(agg.tasks) : agg.fetched[k] # "pending"
    /\ LET combined == Extend(agg.results)
           sliced == Page(combined, agg.offset, agg.limit)
       IN  agg' = [agg EXCEPT
                     !.pc = "done",
                     !.combined = combined,
                     !.response = [status |-> 200,
                                   body |-> [count  |-> Len(sliced),
                                             total  |-> Len(combined),
                                             limit  |-> agg.limit,
                                             offset |-> agg.offset,
                                             items  |-> sliced]]]
    /\ UNCHANGED <<inside, PHARMACIES, pharmacyStores, orders_farmahorra, call,
                   outages, generator, reads, etl, pacing>>

\* The parameters of the requests: no pharmacy, a registered one, an unknown
\* one; limits and offsets below, inside and beyond the combined list.
FarmParams == {"", "farma_002", "farma_009"}

Limits == (-1..MaxPage) \cup {LimitDefault}

Offsets == -1..MaxPage

\* Three registered pharmacies; some products are out of stock.
ProductsCatalog ==
    [f \in Farms |->
        IF f = "farma_001"
        THEN (NdcA :> Product(1000, 2)) @@ (NdcB :> Product(250, 0))
        ELSE IF f = "farma_002" THEN (NdcA :> Product(980, 1))
        ELSE (NdcA :> Product(1020, 0)) @@ (NdcB :> Product(260, 3))]

InitProducts ==
    /\ NoPharmacyRequests /\ NoGenerator /\ NoReads /\ NoEtl /\ NoPace
    /\ PHARMACIES = FarmOrder
    /\ catalog_coll = ProductsCatalog
    /\ orders_coll = [f \in Farms |-> <<>>]
    /\ orders_farmahorra = <<>>
    /\ call = [n \in Attempts |-> NoCall]
    /\ outages = 0
    /\ agg = NoAgg

NextProducts ==
    \/ \E id_farmacia \in FarmParams, in_stock_only \in BOOLEAN,
          limit \in Limits, offset \in Offsets :
          ListProducts(id_farmacia, in_stock_only, limit, offset)
    \/ \E k \in 1..Len(FarmOrder) :
          \/ FetchCatalogAnswered(k)
          \/ FetchCatalogRaises(k)
    \/ Combine

SpecProducts == InitProducts /\ [][NextProducts]_vars

\* Catalogs with a document that has no stock, beside documents with a
\* positive and with a zero stock.
NullStockCatalog ==
    [f \in Farms |->
        IF f = "farma_001"
        THEN (NdcA :> Product(1000, 2)) @@ (NdcB :> [price |-> 250])
        ELSE IF f = "farma_002"
        THEN (NdcA :> Product(980, 0)) @@ (NdcB :> Product(255, 1))
        ELSE (NdcA :> Product(1020, 1))]

InitNullStock ==
    /\ NoPharmacyRequests /\ NoGenerator /\ NoReads /\ NoEtl /\ NoPace
    /\ PHARMACIES = FarmOrder
    /\ catalog_coll = NullStockCatalog
    /\ orders_coll = [f \in Farms |-> <<>>]
    /\ orders_farmahorra = <<>>
    /\ call = [n \in Attempts |-> NoCall]
    /\ outages = 0
    /\ agg = NoAgg

SpecNullStock == InitNullStock /\ [][NextProducts]_vars

\* ------------------------------------------- e_normalize_package_ndc.py
\* One call of normalize_package_ndc.
NormalizePackageNdc ==
    /\ clean_ndc = NotCalled
    /\ clean_ndc' = normalize_package_ndc(package_ndc)
    /\ UNCHANGED <<inside, PHARMACIES, pharmacyStores, orders_farmahorra, call,
                   outages, generator, agg, reads, package_ndc, pipeline, ran,
                   pacing>>

InitNdc ==
    /\ NoPharmacyRequests /\ NoOrchestrator /\ NoGenerator /\ NoReads /\ NoPace
    /\ package_ndc \in PackageNdcs
    /\ clean_ndc = NotCalled
    /\ pipeline = NoPipeline
    /\ ran = <<>>

NextNdc == NormalizePackageNdc

SpecNdc == InitNdc /\ [][NextNdc]_vars

\* ------------------------------------------------------ z_run_pipeline.py
\* Everything but the runner of the pipeline stays as it is.
PipelineOnly ==
    UNCHANGED <<inside, PHARMACIES, pharmacyStores, orders_farmahorra, call,
                outages, generator, agg, reads, package_ndc, clean_ndc, pacing>>

\* A child process just started by subprocess.run: it has not returned.
Child(cmd) == [cmd |-> cmd, returncode |-> <<>>]

\* The child started last has ended with this return code.
Ended(children, returncode) ==
    [children EXCEPT ![Len(children)].returncode = <<returncode>>]

\* sys.exit(1)
SysExit(p, code) == [p EXCEPT !.pc = "exited", !.exit = <<code>>]

\* Lines 61 and 39-41: main calls run_tests, which starts the unit tests;
\* subprocess.run blocks until they end.
RunTests ==
    /\ pipeline.pc = "main"
    /\ ran' = Append(ran, Child(unittest))
    /\ pipeline' = [pipeline EXCEPT !.pc = "testing"]
    /\ PipelineOnly

\* Line 41: the unit tests end, subprocess.run returns the result.
TestsReturn ==
    /\ pipeline.pc = "testing"
    /\ \E returncode \in ReturnCodes :
          /\ ran' = Ended(ran, returncode)
          /\ pipeline' = [pipeline EXCEPT !.result = <<returncode>>,
                                          !.pc = "tested"]
    /\ PipelineOnly

\* Lines 42-45 and 62: the tests failed and the runner exits with 1, or they
\* passed and main goes on to the loop.
TestsCheck ==
    /\ pipeline.pc = "tested"
    /\ pipeline' = IF Failed(pipeline.result[1])
                   THEN SysExit(pipeline, 1)
                   ELSE [pipeline EXCEPT !.pc = "for"]
    /\ UNCHANGED ran
    /\ PipelineOnly

\* Lines 63-64 and 48-54: the loop takes the next script of the list and
\* run_script starts it; subprocess.run blocks until it ends.
RunScript ==
    /\ pipeline.pc = "for"
    /\ pipeline.i < Len(scripts)
    /\ ran' = Append(ran, Child(scripts[pipeline.i + 1]))
    /\ pipeline' = [pipeline EXCEPT !.i = @ + 1, !.pc = "running"]
    /\ PipelineOnly

\* Lines 50-54: the script ends, subprocess.run returns the result
\* (check=False: no exception whatever the return code).
ScriptReturn ==
    /\ pipeline.pc = "running"
    /\ \E returncode \in ReturnCodes :
          /\ ran' = Ended(ran, returncode)
          /\ pipeline' = [pipeline EXCEPT !.result = <<returncode>>,
                                          !.pc = "returned"]
    /\ PipelineOnly

\* Lines 55-57: the script failed and the runner exits with 1, or it
\* succeeded and run_script returns to the loop.
ScriptCheck ==
    /\ pipeline.pc = "returned"
    /\ pipeline' = IF Failed(pipeline.result[1])
                   THEN SysExit(pipeline, 1)
                   ELSE [pipeline EXCEPT !.pc = "for"]
    /\ UNCHANGED ran
    /\ PipelineOnly

\* Lines 63-68: the list is exhausted, main returns and the runner exits 0.
PipelineDone ==
    /\ pipeline.pc = "for"
    /\ pipeline.i = Len(scripts)
    /\ pipeline' = SysExit(pipeline, 0)
    /\ UNCHANGED ran
    /\ PipelineOnly

InitPipeline ==
    /\ NoPharmacyRequests /\ NoOrchestrator /\ NoGenerator /\ NoReads /\ NoPace
    /\ NoEtl

NextPipeline ==
    \/ RunTests
    \/ TestsReturn
    \/ TestsCheck
    \/ RunScript
    \/ ScriptReturn
    \/ ScriptCheck
    \/ PipelineDone

SpecPipeline == InitPipeline /\ [][NextPipeline]_vars

\* ------------------------------------------------- vocabulary of the claims
Status(p) == response[p].status

HasOrder(ords, p) == \E k \in 1..Len(ords) : ords[k].order_id = p

\* Quantity the request asks of product c, over all its lines.
Requested(p, c) ==
    SumSeq([k \in 1..Len(payload[p].items) |->
              IF payload[p].items[k].package_ndc_11 = c
              THEN payload[p].items[k].quantity ELSE 0])

RECURSIVE NetOf(_, _)
NetOf(S, c) == IF S = {} THEN 0
               ELSE LET p == CHOOSE q \in S : TRUE
                    IN  net[p][c] + NetOf(S \ {p}, c)

ElevenDigits(code) ==
    /\ Len(Chars[code]) = 11
    /\ \A k \in 1..Len(Chars[code]) : Chars[code][k] \in Digits

WellFormed(p) ==
    /\ payload[p].items # <<>>
    /\ \A k \in 1..Len(payload[p].items) :
          /\ ElevenDigits(payload[p].items[k].package_ndc_11)
          /\ payload[p].items[k].quantity >= 1

\* The step with which request p returns.
Returns(p) == pc[p] # "done" /\ pc'[p] = "done"

\* C1: under any interleaving of commits and rollbacks the stock of every
\* product is >= 0: the decrements applied and not rolled back never sum to
\* more than the stock the catalog started with.
C1_StockNeverNegative ==
    \A c \in CatalogCodes :
        /\ stock[c] >= 0
        /\ stock[c] = stock0[c] - NetOf(Procs, c)
        /\ NetOf(Procs, c) <= stock0[c]

C1_Witness ==
    \E c \in CatalogCodes :
        /\ stock0[c] > 0
        /\ stock[c] = 0
        /\ \A p \in Procs : net[p][c] > 0

\* C2: when a multi-line order that ran with no other commit in flight has a
\* line k > 1 rejected, then at the moment the 409 is returned every stock
\* equals its value before the order and the orders collection is unchanged.
C2_RollbackRestores ==
    [][\A p \in Procs :
          (Returns(p) /\ Status(p)' = 409 /\ solo[p] /\ idx[p] > 1)
          => /\ stock' = pre[p].stock
             /\ orders' = orders
             /\ Len(orders') = pre[p].orders
             /\ ~HasOrder(orders', p)]_vars

C2_Witness ==
    \E p \in Procs :
        /\ pc[p] = "done" /\ Status(p) = 409 /\ solo[p] /\ idx[p] > 1
        /\ decs[p] >= 1 /\ incs[p] = decs[p]
        /\ stock = pre[p].stock
        /\ ~HasOrder(orders, p)

\* The scenario of two equal orders on one product.
Scenario3 ==
    /\ Cardinality(Procs) = 2
    /\ stock0[NdcA] = 5
    /\ \A p \in Procs : payload[p].items = <<Line(NdcA, 3)>>
    /\ \A p \in Procs : failedAt[p] = "none"

\* C3: stock 5 and two concurrent single-line orders of quantity 3 with no
\* storage failure: the stock is never negative, exactly one order returns 201
\* and the other 409, the final stock is 2, the 409 reports available 5 or 2.
C3_TwoOrdersOneWins ==
    Scenario3 =>
        /\ stock[NdcA] \in {5, 2}
        /\ (\A p \in Procs : pc[p] = "done") =>
              /\ Cardinality({p \in Procs : Status(p) = 201}) = 1
              /\ Cardinality({p \in Procs : Status(p) = 409}) = 1
              /\ stock[NdcA] = 2
              /\ \A p \in Procs :
                    Status(p) = 409 => response[p].shortage.available \in {5, 2}

C3_Witness ==
    /\ Scenario3
    /\ \A p \in Procs : pc[p] = "done"
    /\ \E p \in Procs : Status(p) = 409 /\ ~solo[p]

\* C4: when the insert of the order raises after every decrement was applied,
\* the request adds back every applied decrement and returns 500, no Order
\* record exists for it, and with no concurrent commit every stock equals its
\* value before the order when the 500 is returned.
C4_InsertFailureRollsBack ==
    [][\A p \in Procs :
          (Returns(p) /\ failedAt'[p] = "insert")
          => /\ Status(p)' = 500
             /\ decs'[p] = Len(payload[p].items)
             /\ incs'[p] = decs'[p]
             /\ net'[p] = NoNet
             /\ ~HasOrder(orders', p)
             /\ (solo[p] => stock' = pre[p].stock)]_vars

C4_Witness ==
    \E p \in Procs :
        /\ pc[p] = "done" /\ failedAt[p] = "insert" /\ Status(p) = 500
        /\ solo[p] /\ decs[p] = 2 /\ incs[p] = 2
        /\ stock = pre[p].stock

\* C5: a well-formed order naming a code that is not in the catalog returns 404
\* listing exactly the missing codes, and applies no stock update and no order
\* insert, also when its other lines name products with sufficient stock.
C5_MissingCodeNotFound ==
    \A p \in Procs :
        (/\ pc[p] = "done"
         /\ WellFormed(p)
         /\ failedAt[p] = "none"
         /\ \E k \in 1..Len(payload[p].items) :
               payload[p].items[k].package_ndc_11 \notin CatalogCodes)
        => /\ Status(p) = 404
           /\ response[p].missing =
                 SelectSeq(Ndcs(payload[p]), LAMBDA c : c \notin CatalogCodes)
           /\ decs[p] = 0 /\ incs[p] = 0 /\ net[p] = NoNet
           /\ ~HasOrder(orders, p)

C5_Witness ==
    \E p \in Procs :
        /\ pc[p] = "done" /\ Status(p) = 404
        /\ response[p].missing = <<NdcGone>>
        /\ Len(payload[p].items) = 2
        /\ decs[p] = 0
        /\ \E k \in 1..2 : /\ payload[p].items[k].package_ndc_11 \in CatalogCodes
                           /\ stock[payload[p].items[k].package_ndc_11]
                                 >= payload[p].items[k].quantity

\* The request has no items or a code that is not 11 digits.
Malformed(p) ==
    \/ payload[p].items = <<>>
    \/ \E k \in 1..Len(payload[p].items) :
          ~ElevenDigits(payload[p].items[k].package_ndc_11)

\* C6: an order with no items, or with a code that is not exactly 11 digits,
\* takes one step only, the 422, which reads and writes neither the catalog
\* nor the orders collection.
C6_ValidationFailsFast ==
    [][\A p \in Procs :
          (Malformed(p) /\ pc'[p] # pc[p])
          => /\ pc[p] = "start" /\ pc'[p] = "done"
             /\ Status(p)' = 422
             /\ prod_map'[p] = <<>>
             /\ decs'[p] = 0 /\ incs'[p] = 0
             /\ stock' = stock /\ orders' = orders]_vars

C6_Witness ==
    \E p \in Procs :
        /\ pc[p] = "done" /\ Status(p) = 422
        /\ Len(payload[p].items) = 2
        /\ ~ElevenDigits(payload[p].items[2].package_ndc_11)
        /\ stock[payload[p].items[1].package_ndc_11] >= payload[p].items[1].quantity
        /\ decs[p] = 0

\* Every line of the request was decremented once and nothing was added back.
Committed(p) ==
    /\ decs[p] = Len(payload[p].items)
    /\ incs[p] = 0
    /\ \A c \in CatalogCodes : net[p][c] = Requested(p, c)

\* C7: an Order record exists only for a request whose every line was
\* decremented and none rolled back; a 201 means exactly one Order record of
\* the request, with the request's lines in request order, and each line's
\* quantity subtracted exactly once.
C7_OrderIffAllDecremented ==
    /\ \A k \in 1..Len(orders) :
          /\ orders[k].order_id \in Procs
          /\ Committed(orders[k].order_id)
          /\ Status(orders[k].order_id) = 201
    /\ \A p \in Procs :
          Status(p) = 201
          => /\ Cardinality({k \in 1..Len(orders) : orders[k].order_id = p}) = 1
             /\ Committed(p)
             /\ \A k \in 1..Len(orders) :
                   orders[k].order_id = p
                   => /\ orders[k] = response[p].order
                      /\ Len(orders[k].items) = Len(payload[p].items)
                      /\ \A j \in 1..Len(payload[p].items) :
                            /\ orders[k].items[j].package_ndc_11 =
                                  payload[p].items[j].package_ndc_11
                            /\ orders[k].items[j].quantity =
                                  payload[p].items[j].quantity

C7_Witness ==
    \E p \in Procs :
        /\ Status(p) = 201
        /\ Len(payload[p].items) = 2
        /\ payload[p].items[1].package_ndc_11 # payload[p].items[2].package_ndc_11
        /\ \E q \in Procs \ {p} : Status(q) = 409 /\ ~solo[q]

\* C8 as claimed: the available quantity of a 409 is the stock the short
\* product had at the instant its conditional decrement was rejected.
C8_AvailableAtRejection ==
    \A p \in Procs :
        Status(p) = 409
        => /\ response[p].shortage.available = rejStock[p]
           /\ response[p].shortage.available >= 0
           /\ response[p].shortage.package_ndc_11 =
                 payload[p].items[idx[p]].package_ndc_11
           /\ response[p].shortage.requested = payload[p].items[idx[p]].quantity

\* C8 amended: the 409 carries the rejected line's code and quantity and an
\* available quantity >= 0 read after the rejection and before the order's own
\* rollback; it is the stock at the instant of the rejection, hence below the
\* requested quantity, when no other commit was in flight.
C8_AvailableFreshRead ==
    \A p \in Procs :
        Status(p) = 409
        => /\ response[p].shortage.available >= 0
           /\ response[p].shortage.available = available[p]
           /\ response[p].shortage.package_ndc_11 =
                 payload[p].items[idx[p]].package_ndc_11
           /\ response[p].shortage.requested = payload[p].items[idx[p]].quantity
           /\ solo[p] => /\ response[p].shortage.available = rejStock[p]
                         /\ response[p].shortage.available <
                               response[p].shortage.requested

C8_Witness ==
    \E p \in Procs :
        /\ Status(p) = 409
        /\ ~solo[p]
        /\ idx[p] = 2
        /\ response[p].shortage.available # rejStock[p]
        /\ response[p].shortage.available >= response[p].shortage.requested

\* The order is priced with the prices its request read from the catalog.
PricedAtRead(o, read) ==
    /\ \A j \in 1..Len(o.items) :
          /\ o.items[j].unit_price = read[o.order_id][o.items[j].package_ndc_11]
          /\ o.items[j].line_total = o.items[j].unit_price * o.items[j].quantity
    /\ o.subtotal = SumSeq([j \in 1..Len(o.items) |-> o.items[j].line_total])
    /\ o.total = o.subtotal - o.discount

\* C9: the unit price of every line of a persisted Order is the price the
\* request's single catalog read returned, the totals derive from it, and no
\* later step, a catalog price change included, alters a persisted Order.
C9_PriceSnapshot ==
    [][/\ Len(orders') >= Len(orders)
       /\ \A k \in 1..Len(orders) : orders'[k] = orders[k]
       /\ \A k \in 1..Len(orders') : PricedAtRead(orders'[k], readPrice')]_vars

C9_Witness ==
    \E k \in 1..Len(orders) :
        /\ reloads < MaxReloads
        /\ price[orders[k].items[1].package_ndc_11] # orders[k].items[1].unit_price
        /\ orders[k].items[1].unit_price > 0
        /\ orders[k].total > 0

\* C10: in every persisted Order, in cents: line_total = unit_price * quantity,
\* subtotal is the sum of the line totals, discount is subtotal * pct / 100
\* rounded to the nearest cent, total = subtotal - discount, and
\* 0 <= discount <= subtotal, 0 <= total <= subtotal.
C10_Totals ==
    \A k \in 1..Len(orders) :
        LET o == orders[k]
        IN  /\ o.discount_pct \in 0..100
            /\ \A j \in 1..Len(o.items) :
                  o.items[j].line_total = o.items[j].unit_price * o.items[j].quantity
            /\ o.subtotal = SumSeq([j \in 1..Len(o.items) |-> o.items[j].line_total])
            /\ 100 * o.discount - o.subtotal * o.discount_pct \in -50..50
            /\ o.total = o.subtotal - o.discount
            /\ 0 <= o.discount /\ o.discount <= o.subtotal
            /\ 0 <= o.total /\ o.total <= o.subtotal

C10_Witness ==
    \E k \in 1..Len(orders) :
        LET o == orders[k]
        IN  /\ Len(o.items) = 2
            /\ o.items[1].quantity > 1
            /\ (o.subtotal * o.discount_pct) % 100 > 50
            /\ o.discount > 0 /\ o.total > 0

\* The end-to-end scenario: product "00000000001" with stock 5 and price 10.00,
\* one order of quantity 3 with discount 10%, nothing else in flight.
Scenario11(p) ==
    /\ payload[p] = [items |-> <<Line("00000000001", 3)>>, discount_pct |-> 10]
    /\ pre[p].stock["00000000001"] = 5
    /\ price["00000000001"] = 1000
    /\ solo[p]

\* C11: with product "00000000001" at stock 5 and price 10.00, a single order
\* of quantity 3 and discount 10% returns 201 with line_total 30.00, subtotal
\* 30.00, discount 3.00 and total 27.00, and the stock after the commit is 2.
C11_EndToEnd ==
    [][\A p \in Procs :
          (Returns(p) /\ Scenario11(p) /\ failedAt'[p] = "none")
          => /\ Status(p)' = 201
             /\ Len(response'[p].order.items) = 1
             /\ response'[p].order.items[1].line_total = 3000
             /\ response'[p].order.subtotal = 3000
             /\ response'[p].order.discount = 300
             /\ response'[p].order.total = 2700
             /\ stock'["00000000001"] = 2
             /\ orders'[Len(orders')] = response'[p].order]_vars

C11_Witness ==
    \E p \in Procs :
        /\ pc[p] = "done" /\ Scenario11(p) /\ Status(p) = 201
        /\ response[p].order.total = 2700
        /\ stock["00000000001"] = 2
        /\ Len(orders) = 1

\* C12: over any sequence of create_order, list_orders and get_order calls the
\* Order records are only added, never changed or removed, and every answer of
\* get_order for an id has the content of the first answer for that id, which
\* is the content of the record.
C12_OrdersAppendOnly ==
    [][/\ Len(orders') >= Len(orders)
       /\ \A k \in 1..Len(orders) : orders'[k] = orders[k]
       /\ got'.status = 200
          => /\ got'.order_id \in Procs
             /\ got'.order = seen'[got'.order_id]
             /\ \E k \in 1..Len(orders') :
                   /\ orders'[k].order_id = got'.order_id
                   /\ orders'[k] = got'.order]_vars

C12_Witness ==
    /\ Len(orders) = 2
    /\ got.status = 200
    /\ got.order = orders[1]
    /\ seen[orders[1].order_id] = orders[1]
    /\ seen[orders[2].order_id] = orders[2]
    /\ Len(listed) = 2 /\ listed[1] = orders[2]

\* The id is one the registry holds.
Registered(id_farmacia) ==
    \E k \in 1..Len(PHARMACIES) : PHARMACIES[k] = id_farmacia

\* C13: an orchestrator create_order call for an id_farmacia that is not in
\* the registry takes one step only, the 404: no request is sent to a
\* pharmacy, no orchestrator record is written and no pharmacy's stock or
\* order log changes.
C13_UnknownPharmacy ==
    [][\A n \in Attempts :
          (/\ call[n].pc # "idle"
           /\ ~Registered(call[n].payload.id_farmacia)
           /\ call'[n] # call[n])
          => /\ call[n].pc = "recv" /\ call'[n].pc = "done"
             /\ call'[n].out.status = 404
             /\ call'[n].posts = 0 /\ call'[n].req = "none"
             /\ call'[n].applied = 0
             /\ orders_farmahorra' = orders_farmahorra
             /\ catalog_coll' = catalog_coll
             /\ orders_coll' = orders_coll]_vars

C13_Witness ==
    \E n \in Attempts :
        /\ call[n].pc = "done" /\ call[n].out.status = 404
        /\ call[n].payload.id_farmacia = "farma_003"
        /\ call[n].posts = 0
        /\ catalog_coll["farma_003"][call[n].payload.items[1].package_ndc_11].stock
              >= call[n].payload.items[1].quantity

\* The external order id of attempt n.
ExtId(n) == call[n].payload.external_order_id

\* The pharmacy Order records that carry external order id x.
PharmacyOrdersOf(x) ==
    UNION {{<<f, k>> : k \in {j \in 1..Len(orders_coll[f]) :
                                 orders_coll[f][j].external_order_id = x}} :
           f \in Farms}

\* The orchestrator records that carry external order id x.
RecordsOf(x) ==
    {k \in 1..Len(orders_farmahorra) : orders_farmahorra[k].external_order_id = x}

\* Units of product c in the Order records of pharmacy f.
Sold(f, c) ==
    SumSeq([k \in 1..Len(orders_coll[f]) |->
              SumSeq([j \in 1..Len(orders_coll[f][k].items) |->
                        IF orders_coll[f][k].items[j].package_ndc_11 = c
                        THEN orders_coll[f][k].items[j].quantity ELSE 0])])

\* C14: every iteration of the generator posts at most once to the
\* orchestrator and every orchestrator call posts at most once to the
\* pharmacy, so whatever the outcome an attempt has at most one pharmacy
\* Order, at most one decrement per line, and the stock of every pharmacy is
\* down by exactly the quantities of its Order records.
C14_AtMostOnce ==
    /\ stats.attempted = gen.i
    /\ \A n \in Attempts :
          /\ n > gen.i => call[n] = NoCall
          /\ call[n].calls <= 1
          /\ call[n].posts <= 1
          /\ call[n].pc # "idle"
             => /\ Cardinality(PharmacyOrdersOf(ExtId(n))) <= 1
                /\ call[n].applied <= Len(call[n].payload.items)
                /\ call[n].undone <= call[n].applied
    /\ \A f \in Farms :
          /\ \A k \in 1..Len(orders_coll[f]) :
                \E n \in Attempts :
                    /\ call[n].posts = 1
                    /\ ExtId(n) = orders_coll[f][k].external_order_id
          /\ \A c \in DOMAIN RouteCatalog[f] :
                RouteCatalog[f][c].stock - catalog_coll[f][c].stock = Sold(f, c)

C14_Witness ==
    \E n \in Attempts :
        /\ gen.pc = "end"
        /\ call[n].pc = "done" /\ call[n].failedAt = "post"
        /\ call[n].out.status = 500
        /\ call[n].posts = 1
        /\ Cardinality(PharmacyOrdersOf(ExtId(n))) = 1
        /\ stats.failed_5xx = 1

\* The step with which call n answers what the pharmacy answered, which was
\* not a 201.
PassesOn(n) ==
    /\ call[n].pc = "await" /\ call'[n].pc = "done"
    /\ call'[n].failedAt = "none"
    /\ call[n].req = "served" /\ call[n].r.status # 201

\* The step with which the generator receives the answer of such a call and
\* counts it in the class of its status.
CountsInClass ==
    (/\ gen.pc = "wait" /\ gen'.pc # "wait"
     /\ call[gen.i].pc = "done" /\ call[gen.i].failedAt = "none"
     /\ call[gen.i].req = "served" /\ call[gen.i].r.status # 201
     /\ gen'.status = call[gen.i].out.status)
    => /\ pools' = pools
       /\ (400 <= gen'.status /\ gen'.status < 500)
             => stats' = [stats EXCEPT !.failed_4xx = @ + 1]
       /\ gen'.status >= 500
             => stats' = [stats EXCEPT !.failed_5xx = @ + 1]

\* C15 as claimed: a status other than 201 from the pharmacy is answered to
\* the caller with that status and the pharmacy's body, no orchestrator
\* record is written, and the generator counts a 4xx in failed_4xx and a 5xx
\* in failed_5xx.
C15_ErrorVerbatim ==
    [][/\ \A n \in Attempts :
             PassesOn(n)
             => /\ call'[n].out.status = call[n].r.status
                /\ call'[n].out.body = call[n].r.body
                /\ orders_farmahorra' = orders_farmahorra
                /\ RecordsOf(ExtId(n))' = {}
       /\ CountsInClass]_vars

\* C15, what the code does: the caller is answered with that status and a
\* body whose detail is the text of the pharmacy's body, which is not the
\* pharmacy's body; no orchestrator record is written; the generator, when
\* that answer reaches it, counts a 4xx in failed_4xx only and a 5xx in
\* failed_5xx only.
C15_ErrorWrapped ==
    [][/\ \A n \in Attempts :
             PassesOn(n)
             => /\ call'[n].out.status = call[n].r.status
                /\ call'[n].out.status \in {422, 404, 409, 500}
                /\ DOMAIN call'[n].out.body = {"detail"}
                /\ Json(call'[n].out.body.detail) = call[n].r.body
                /\ call'[n].out.body # call[n].r.body
                /\ orders_farmahorra' = orders_farmahorra
                /\ RecordsOf(ExtId(n))' = {}
       /\ CountsInClass]_vars

C15_Witness ==
    \E n \in Attempts :
        /\ call[n].pc = "done" /\ call[n].failedAt = "none"
        /\ call[n].r.status = 409 /\ call[n].out.status = 409
        /\ Json(call[n].out.body.detail).detail.shortage.available = 0
        /\ gen.i = n /\ gen.pc # "wait" /\ gen.status = 409
        /\ stats.failed_4xx = 1 /\ stats.created = 1

\* C16: when the orchestrator's POST to the pharmacy raises (transport error
\* or timeout) the call ends there with a 5xx: one POST was sent and no other
\* follows, no orchestrator record is written then or later, and the
\* generator counts the attempt in failed_5xx and neither in created nor in
\* failed_4xx, also when its own request gave up first.
C16_TransportFailure ==
    [][/\ \A n \in Attempts :
             /\ (call[n].failedAt = "none" /\ call'[n].failedAt = "post")
                => /\ call[n].pc = "await" /\ call'[n].pc = "done"
                   /\ call'[n].out.status \in 500..599
                   /\ call[n].posts = 1 /\ call'[n].posts = 1
                   /\ orders_farmahorra' = orders_farmahorra
             /\ call[n].failedAt = "post"
                => /\ call'[n].posts = 1 /\ call'[n].pc = "done"
                   /\ call'[n].out = call[n].out
                   /\ RecordsOf(ExtId(n))' = {}
       /\ (/\ gen.pc = "wait" /\ gen'.pc # "wait"
           /\ call[gen.i].failedAt = "post" \/ call[gen.i].pc # "done")
          => /\ stats'.created = stats.created
             /\ stats'.failed_4xx = stats.failed_4xx
             /\ stats'.failed_5xx > stats.failed_5xx
             /\ pools' = pools]_vars

C16_Witness ==
    \E n \in Attempts :
        /\ call[n].failedAt = "post" /\ call[n].req = "sent"
        /\ call[n].out.status = 500
        /\ gen.i = n /\ gen.pc # "wait" /\ gen.status = 500
        /\ stats.failed_5xx = 1 /\ stats.failed_timeout = 0
        /\ stats.failed_4xx = 0

\* C17: every orchestrator record belongs to a call that got a 201 from the
\* pharmacy its id_farmacia names: its external_order_id is the caller's, its
\* farmacia_order_id is the id of an Order in that pharmacy's log, and its
\* items, subtotal, discount and total are those of that Order.
C17_RecordMatchesOrder ==
    \A k \in 1..Len(orders_farmahorra) :
        LET d == orders_farmahorra[k]
        IN  /\ Registered(d.id_farmacia)
            /\ \E n \in Attempts :
                  /\ call[n].pc \in {"insert", "done"}
                  /\ ExtId(n) = d.external_order_id
                  /\ call[n].payload.id_farmacia = d.id_farmacia
                  /\ call[n].r.status = 201
            /\ \E j \in 1..Len(orders_coll[d.id_farmacia]) :
                  LET o == orders_coll[d.id_farmacia][j]
                  IN  /\ o.order_id = d.farmacia_order_id
                      /\ o.tenant = d.id_farmacia
                      /\ o.external_order_id = d.external_order_id
                      /\ o.items = d.items
                      /\ o.subtotal = d.subtotal
                      /\ o.discount = d.discount
                      /\ o.total = d.total

C17_Witness ==
    /\ Len(orders_farmahorra) = 2
    /\ orders_farmahorra[1].id_farmacia # orders_farmahorra[2].id_farmacia
    /\ orders_farmahorra[1].total # orders_farmahorra[2].total
    /\ \A f \in {"farma_001", "farma_002"} : Len(orders_coll[f]) = 1

\* C18: when the orchestrator's insert raises after a 201 of the pharmacy,
\* the call ends with an error and sends nothing more to the pharmacy; then
\* and later the pharmacy's Order record exists, the stock is still down by
\* its quantities, and no orchestrator record exists for the order.
C18_InsertFailureKeepsOrder ==
    [][\A n \in Attempts :
          /\ (call[n].failedAt = "none" /\ call'[n].failedAt = "insert")
             => /\ call[n].pc = "insert" /\ call[n].r.status = 201
                /\ call'[n].pc = "done"
                /\ call'[n].out.status >= 500
                /\ call'[n].posts = 1 /\ call'[n].undone = 0
                /\ catalog_coll' = catalog_coll
                /\ orders_coll' = orders_coll
                /\ orders_farmahorra' = orders_farmahorra
          /\ call[n].failedAt = "insert"
             => /\ call'[n] = call[n]
                /\ RecordsOf(ExtId(n))' = {}
                /\ LET f == call[n].payload.id_farmacia
                   IN  /\ \E j \in 1..Len(orders_coll'[f]) :
                             /\ orders_coll'[f][j].order_id = call[n].r.body.order_id
                             /\ orders_coll'[f][j].external_order_id = ExtId(n)
                       /\ \A c \in DOMAIN RouteCatalog[f] :
                             catalog_coll'[f][c].stock =
                                RouteCatalog[f][c].stock - Sold(f, c)']_vars

C18_Witness ==
    \E n \in Attempts :
        /\ call[n].failedAt = "insert" /\ call[n].out.status = 500
        /\ Cardinality(PharmacyOrdersOf(ExtId(n))) = 1
        /\ RecordsOf(ExtId(n)) = {}
        /\ catalog_coll[call[n].payload.id_farmacia][NdcA].stock = 0
        /\ gen.pc = "end" /\ stats.failed_5xx = 1 /\ stats.created = 1

\* What pharmacy f's catalog holds for the request: every document in the
\* catalog's order, or those with a positive stock when only they are asked.
Offered(f) ==
    LET docs == ListCatalog(catalog_coll[f])
        Positive(d) == d.stock > 0
    IN  IF agg.in_stock_only THEN SelectSeq(docs, Positive) ELSE docs

\* The tasks whose pharmacy answered with a 200.
Answered == {k \in 1..Len(agg.tasks) : agg.fetched[k] = "ok"}

\* The number of items the answering pharmacies before task k hold.
Before(k) == SumSeq([j \in 1..(k - 1) |->
                       IF j \in Answered THEN Len(Offered(agg.tasks[j])) ELSE 0])

\* C19: list_products answers 200 whatever pharmacies answer an error status
\* or raise; it asks every registered pharmacy unless one is named; the
\* combined list holds, for every pharmacy that answered and in the order of
\* the registry, that pharmacy's whole catalog (its in-stock part when only
\* that is asked), every item tagged with its pharmacy, and nothing else.
C19_PartialTolerant ==
    agg.pc = "done"
    => /\ agg.response.status = 200
       /\ agg.id_farmacia = "" => agg.tasks = PHARMACIES
       /\ Len(agg.combined) = Before(Len(agg.tasks) + 1)
       /\ \A k \in Answered :
             \A j \in 1..Len(Offered(agg.tasks[k])) :
                LET it == agg.combined[Before(k) + j]
                    d == Offered(agg.tasks[k])[j]
                IN  /\ it.id_farmacia = agg.tasks[k]
                    /\ it.package_ndc_11 = d.package_ndc_11
                    /\ it.price = d.price
                    /\ it.stock = d.stock
       /\ \A k \in 1..Len(agg.tasks) :
             k \notin Answered
             => \A j \in 1..Len(agg.combined) :
                   agg.combined[j].id_farmacia # agg.tasks[k]

\* Three pharmacies asked, the second unreachable: the union of the other two.
C19_Witness ==
    /\ agg.pc = "done"
    /\ agg.id_farmacia = "" /\ ~agg.in_stock_only
    /\ agg.limit = LimitDefault /\ agg.offset = 0
    /\ agg.fetched = <<"ok", "raise", "ok">>
    /\ agg.response.status = 200
    /\ agg.response.body.total = 4
    /\ agg.response.body.count = 4
    /\ agg.response.body.items[2].id_farmacia = "farma_001"
    /\ agg.response.body.items[3].id_farmacia = "farma_003"

\* C20: for offset >= 0 and limit >= 0 the items are the combined list's
\* elements offset+1 .. offset+limit as far as they exist, total is the
\* length of the combined list, which is the sum of what the answering
\* pharmacies hold (after the stock filter) whatever limit and offset are,
\* count is the number of items = min(limit, max(0, total - offset)), and
\* limit and offset are echoed.
C20_GlobalPagination ==
    (agg.pc = "done" /\ agg.offset >= 0 /\ agg.limit >= 0)
    => LET b == agg.response.body
           total == Len(agg.combined)
       IN  /\ b.total = total
           /\ total = Before(Len(agg.tasks) + 1)
           /\ b.count = Min(agg.limit, Max(0, total - agg.offset))
           /\ Len(b.items) = b.count
           /\ \A j \in 1..b.count : b.items[j] = agg.combined[agg.offset + j]
           /\ b.limit = agg.limit
           /\ b.offset = agg.offset

\* A page of two that starts inside the first pharmacy's catalog and ends in
\* the second's.
C20_Witness ==
    /\ agg.pc = "done"
    /\ agg.id_farmacia = "" /\ ~agg.in_stock_only
    /\ agg.limit = 2 /\ agg.offset = 1
    /\ agg.fetched = <<"ok", "ok", "ok">>
    /\ agg.response.body.total = 5
    /\ agg.response.body.count = 2
    /\ agg.response.body.items[1].id_farmacia = "farma_001"
    /\ agg.response.body.items[2].id_farmacia = "farma_002"

\* The documents of pharmacy f's catalog that have a positive stock.
PositiveCodes(f) ==
    {c \in DOMAIN catalog_coll[f] :
        "stock" \in DOMAIN catalog_coll[f][c] /\ catalog_coll[f][c].stock > 0}

\* The product codes the combined list holds for pharmacy f.
CombinedCodes(f) ==
    {agg.combined[j].package_ndc_11 :
        j \in {i \in 1..Len(agg.combined) : agg.combined[i].id_farmacia = f}}

\* Every item is tagged with the pharmacy whose answer it came from, and is a
\* document of that pharmacy's catalog.
TaggedWithOrigin ==
    /\ \A j \in 1..Len(agg.combined) :
          \E k \in Answered :
             /\ agg.combined[j].id_farmacia = agg.tasks[k]
             /\ agg.combined[j].package_ndc_11 \in DOMAIN catalog_coll[agg.tasks[k]]
             /\ agg.combined[j].price =
                   catalog_coll[agg.tasks[k]][agg.combined[j].package_ndc_11].price
    /\ \A j \in 1..Len(agg.response.body.items) :
          \E i \in 1..Len(agg.combined) :
             agg.response.body.items[j] = agg.combined[i]

\* C21 as claimed: every item is tagged with its pharmacy, and with
\* in_stock_only the result holds, for every pharmacy that answered, exactly
\* its documents with stock > 0: a document with zero or no stock is dropped
\* and takes no other document of its pharmacy with it.
C21_ExactlyInStock ==
    agg.pc = "done"
    => /\ TaggedWithOrigin
       /\ agg.in_stock_only
          => \A k \in Answered :
                CombinedCodes(agg.tasks[k]) = PositiveCodes(agg.tasks[k])

\* C21, what the code does: the items are tagged with their pharmacy; with
\* in_stock_only every item has a stock > 0, a pharmacy all of whose
\* documents have a stock contributes exactly those with stock > 0, and a
\* pharmacy with a document without stock contributes nothing.
C21_FilterOrNothing ==
    agg.pc = "done"
    => /\ TaggedWithOrigin
       /\ agg.in_stock_only
          => /\ \A j \in 1..Len(agg.combined) :
                   /\ "stock" \in DOMAIN agg.combined[j]
                   /\ agg.combined[j].stock > 0
             /\ \A k \in Answered :
                   LET f == agg.tasks[k]
                   IN  CombinedCodes(f) =
                          IF \A c \in DOMAIN catalog_coll[f] :
                                "stock" \in DOMAIN catalog_coll[f][c]
                          THEN PositiveCodes(f)
                          ELSE {}

\* All three pharmacies answered a request for the items in stock; the first
\* has a document without stock and its product in stock is not in the result.
C21_Witness ==
    /\ agg.pc = "done"
    /\ agg.id_farmacia = "" /\ agg.in_stock_only
    /\ agg.fetched = <<"ok", "ok", "ok">>
    /\ PositiveCodes("farma_001") = {NdcA}
    /\ CombinedCodes("farma_001") = {}
    /\ CombinedCodes("farma_002") = {NdcB}
    /\ agg.response.body.total = 2

\* The step with which the generator's iteration ends on a 2xx answer.
Got2xx ==
    /\ gen.pc = "wait" /\ gen'.pc # "wait"
    /\ 200 <= gen'.status /\ gen'.status < 300

\* Every entry of the mirror has a stock of at least 1.
PoolPositive == \A f \in Farms : \A j \in 1..Len(pools[f]) : pools[f][j].stock >= 1

\* C22: at the step that receives a 2xx for an order of q of product p of
\* pharmacy f, the mirror entry of p becomes priorStock - q when that is > 0
\* and leaves f's mirror otherwise; every other entry of f and every other
\* pharmacy's mirror stay as they were. In every state every mirror entry
\* has stock >= 1.
C22_MirrorAfterSuccess ==
    [][/\ PoolPositive /\ PoolPositive'
       /\ Got2xx
          => LET f == gen.payload.id_farmacia
                 p == gen.payload.items[1].package_ndc_11
                 q == gen.payload.items[1].quantity
                 at == {j \in 1..Len(pools[f]) : pools[f][j].package_ndc_11 = p}
             IN  /\ \A g \in Farms \ {f} : pools'[g] = pools[g]
                 /\ \E i \in at :
                       LET left == pools[f][i].stock - q
                       IN  IF left > 0
                           THEN /\ Len(pools'[f]) = Len(pools[f])
                                /\ pools'[f][i] = PoolItem(p, left)
                                /\ \A j \in 1..Len(pools[f]) :
                                      j # i => pools'[f][j] = pools[f][j]
                           ELSE /\ Len(pools'[f]) = Len(pools[f]) - 1
                                /\ \A j \in 1..Len(pools'[f]) :
                                      pools'[f][j] =
                                         IF j < i THEN pools[f][j] ELSE pools[f][j + 1]
                                /\ \A j \in 1..Len(pools'[f]) :
                                      pools'[f][j].package_ndc_11 # p]_vars

\* Two successes: one left its product in the mirror with a smaller stock,
\* the other took the first of three entries out of its pharmacy's mirror.
C22_Witness ==
    /\ gen.pc = "end" /\ stats.created = 2
    /\ pools["farma_001"] = <<PoolItem(NdcA, 1)>>
    /\ pools["farma_002"] = <<PoolItem(NdcGone, 1), PoolItem(NdcAlpha, 1)>>

\* The step with which an iteration of the generator ends.
IterationEnds ==
    /\ gen' # gen
    /\ gen.pc \in {"build", "wait"} /\ gen'.pc \in {"build", "end"}

\* C23: the mirror changes only at the step that ends an iteration on a 2xx
\* answer; an iteration that ends on a 4xx, a 5xx, a transport error, a
\* timeout or without a local candidate leaves every pharmacy's mirror as it
\* was, and so does every step of the orchestrator and of the pharmacies.
C23_MirrorOnlyOnSuccess ==
    [][/\ pools' # pools
          => /\ Got2xx
             /\ call[gen.i].pc = "done"
             /\ call[gen.i].out.status = gen'.status
       /\ (IterationEnds /\ ~Got2xx) => pools' = pools]_vars

\* The two iterations ended on a 409 and on a timeout, and the mirror is the
\* one the run started with.
C23_Witness ==
    /\ gen.pc = "end"
    /\ stats.failed_4xx = 1 /\ stats.failed_timeout = 1
    /\ gen.status = 0
    /\ \E n \in Attempts : call[n].out.status = 409
    /\ pools["farma_001"] = <<PoolItem(NdcA, 2)>>
    /\ pools["farma_002"] =
          <<PoolItem(NdcA, 1), PoolItem(NdcGone, 1), PoolItem(NdcAlpha, 1)>>
    /\ pools["farma_003"] = <<PoolItem(NdcA, 1)>>

\* The pharmacy and quantity build_order picked have a candidate in the mirror.
HasCandidate(f, q) == \E j \in 1..Len(pools[f]) : pools[f][j].stock >= q

\* C24: when the mirror of the picked pharmacy has no product with stock >=
\* the picked quantity, the iteration adds one to no_local_candidate, makes
\* no call, leaves the sequence counter and the mirror as they were and ends;
\* otherwise it submits one order, and that order names the picked pharmacy
\* and quantity and a product whose mirrored stock is >= the quantity.
C24_NoLocalCandidate ==
    [][/\ \A m \in Attempts :
             (m <= gen.i /\ call[m] = NoCall) => call'[m] = NoCall
       /\ (gen.pc = "build" /\ gen'.i # gen.i)
          => LET f == gen'.picked[1]
                 q == gen'.picked[2]
                 n == gen'.i
             IN  /\ n = gen.i + 1
                 /\ pools' = pools
                 /\ \A m \in Attempts : m >= n => call[m] = NoCall
                 /\ IF ~HasCandidate(f, q)
                    THEN /\ stats' = [stats EXCEPT !.attempted = @ + 1,
                                                   !.no_local_candidate = @ + 1]
                         /\ call' = call
                         /\ counter' = counter
                         /\ gen'.pc # "wait"
                    ELSE /\ stats' = [stats EXCEPT !.attempted = @ + 1]
                         /\ counter' = counter + 1
                         /\ gen'.pc = "wait"
                         /\ call'[n].calls = 1
                         /\ call'[n].payload = gen'.payload
                         /\ gen'.payload.id_farmacia = f
                         /\ Len(gen'.payload.items) = 1
                         /\ gen'.payload.items[1].quantity = q
                         /\ \E j \in 1..Len(pools[f]) :
                               /\ pools[f][j].package_ndc_11 =
                                     gen'.payload.items[1].package_ndc_11
                               /\ pools[f][j].stock >= q
                               /\ gen'.dec_info = <<f, j, q>>]_vars

\* The first iteration found no candidate and the second submitted an order:
\* no call was made for the first and the sequence counter is at 1.
C24_Witness ==
    /\ gen.i = 2 /\ gen.pc = "wait"
    /\ stats.no_local_candidate = 1 /\ stats.attempted = 2
    /\ call[1] = NoCall
    /\ call[2].calls = 1
    /\ counter = 1
    /\ gen.payload.external_order_id[3] = Format05d(1)

\* The outcome counters of Runner.stats, and their sum.
Outcomes == {"created", "failed_4xx", "failed_5xx", "failed_timeout",
             "no_local_candidate"}

OutcomeSum(st) == st.created + st.failed_4xx + st.failed_5xx
                  + st.failed_timeout + st.no_local_candidate

\* C25 as claimed: attempted counts the iterations; the step that ends an
\* iteration adds one to exactly one outcome counter, the one of its outcome
\* (2xx created, 4xx failed_4xx, 5xx failed_5xx), and a timeout adds to
\* failed_timeout only; between iterations attempted is the sum of the
\* outcome counters.
C25_OneCounterPerIteration ==
    [][/\ stats.attempted = gen.i
       /\ gen.pc # "wait" => stats.attempted = OutcomeSum(stats)
       /\ gen'.pc # "wait" => stats'.attempted = OutcomeSum(stats')
       /\ IterationEnds
          => /\ \A k \in Outcomes : stats'[k] - stats[k] \in {0, 1}
             /\ OutcomeSum(stats') = OutcomeSum(stats) + 1
             /\ Got2xx => stats'.created = stats.created + 1
             /\ (400 <= gen'.status /\ gen'.status < 500)
                   => stats'.failed_4xx = stats.failed_4xx + 1
             /\ gen'.status >= 500 => stats'.failed_5xx = stats.failed_5xx + 1
             /\ stats'.failed_timeout # stats.failed_timeout
                   => stats'.failed_5xx = stats.failed_5xx]_vars

\* C25, what the code does: attempted counts the iterations; an iteration
\* that got a status or found no candidate adds one to exactly one outcome
\* counter, the one of its outcome; an iteration whose POST raised adds two:
\* a timeout one to failed_timeout and one to failed_5xx, another transport
\* error two to failed_5xx.
C25_RaisedCountsTwice ==
    [][/\ stats.attempted = gen.i
       /\ IterationEnds
          => IF gen.pc = "wait" /\ gen'.status = 0
             THEN \/ stats' = [stats EXCEPT !.failed_timeout = @ + 1,
                                            !.failed_5xx = @ + 1]
                  \/ stats' = [stats EXCEPT !.failed_5xx = @ + 2]
             ELSE /\ \A k \in Outcomes : stats'[k] - stats[k] \in {0, 1}
                  /\ OutcomeSum(stats') - OutcomeSum(stats)
                        = stats'.attempted - stats.attempted
                           + (IF gen.pc = "wait" THEN 1 ELSE 0)
                  /\ Got2xx => stats'.created = stats.created + 1
                  /\ (400 <= gen'.status /\ gen'.status < 500)
                        => stats'.failed_4xx = stats.failed_4xx + 1
                  /\ gen'.status >= 500
                        => stats'.failed_5xx = stats.failed_5xx + 1
                  /\ gen.pc = "build"
                        => stats'.no_local_candidate = stats.no_local_candidate + 1]_vars

\* One iteration, whose POST timed out, is over: two outcome counters hold 1.
C25_Witness ==
    /\ gen.i = 1 /\ gen.pc = "build"
    /\ stats.attempted = 1
    /\ stats.failed_timeout = 1 /\ stats.failed_5xx = 1
    /\ OutcomeSum(stats) = 2

\* C26: the loop ends, and only after orders_target iterations: whatever
\* statuses, transport errors and timeouts occur, the run reaches its end
\* with attempted = orders_target and created <= orders_target and stays
\* there, and it is at its end in no state with fewer iterations.
C26_LoopBounded ==
    /\ [](gen.i <= orders_target /\ stats.attempted <= orders_target)
    /\ [](gen.pc = "end" <=> (gen.i = orders_target /\ gen.pc # "wait"))
    /\ <>[](/\ gen.pc = "end"
            /\ gen.i = orders_target
            /\ stats.attempted = orders_target
            /\ stats.created <= orders_target)

\* The run is over although one iteration got a 409 and another timed out.
C26_Witness ==
    /\ gen.pc = "end" /\ gen.i = orders_target
    /\ stats.attempted = orders_target
    /\ stats.failed_4xx = 1 /\ stats.failed_timeout = 1
    /\ stats.created = 0

\* The string s is a digits, a dash, b digits, a dash and c digits.
HasShape(s, f) ==
    /\ Len(s) = f[1] + f[2] + f[3] + 2
    /\ s[f[1] + 1] = "-" /\ s[f[1] + f[2] + 2] = "-"
    /\ \A k \in (1..Len(s)) \ {f[1] + 1, f[1] + f[2] + 2} : s[k] \in Digits

\* The three segments of a string of shape f, each left-padded with zeros to
\* 5, 4 and 2 characters, one after the other.
Padded11(s, f) ==
    LET Zeros(n) == [k \in 1..n |-> "0"]
    IN  Zeros(5 - f[1]) \o SubSeq(s, 1, f[1])
        \o Zeros(4 - f[2]) \o SubSeq(s, f[1] + 2, f[1] + f[2] + 1)
        \o Zeros(2 - f[3]) \o SubSeq(s, f[1] + f[2] + 3, Len(s))

\* C27: for a string in format 4-4-2, 5-3-2, 5-4-1 or 5-4-2 the result is its
\* three segments without the dashes, the short one left-padded with one
\* zero; for every other string and for a value that is no string it is None;
\* every result that is not None is a string of exactly 11 digits.
C27_NormalizeNdc ==
    clean_ndc # NotCalled
    => /\ IF package_ndc.type = "str"
             /\ \E f \in Recognised : HasShape(package_ndc.chars, f)
          THEN \E f \in Recognised :
                  /\ HasShape(package_ndc.chars, f)
                  /\ clean_ndc = Str(Padded11(package_ndc.chars, f))
          ELSE clean_ndc = NoneValue
       /\ clean_ndc # NoneValue
          => /\ clean_ndc.type = "str"
             /\ Len(clean_ndc.chars) = 11
             /\ \A k \in 1..11 : clean_ndc.chars[k] \in Digits

\* 12345-678-90 became 12345067890.
C27_Witness ==
    /\ package_ndc = Str(<<"1", "2", "3", "4", "5", "-", "6", "7", "8", "-", "9", "0">>)
    /\ clean_ndc = Str(<<"1", "2", "3", "4", "5", "0", "6", "7", "8", "9", "0">>)

\* C28 as claimed: whatever the interleaving and whichever storage call
\* fails, no product's stock exceeds its initial value, no request has added
\* back more units of a product than it subtracted, and no request has made
\* more compensations than decrements.
C28_CompensatedAtMostOnce ==
    /\ \A c \in CatalogCodes : stock[c] <= stock0[c]
    /\ \A p \in Procs :
          /\ incs[p] <= decs[p]
          /\ \A c \in CatalogCodes : net[p][c] >= 0

\* C28, what the code does: only a compensation made by the exception
\* handler takes a request's balance of a product below zero; the decrements
\* and the rollback loop never do.
C28_OnlyTheHandlerOvershoots ==
    [][\A p \in Procs : \A c \in CatalogCodes :
          (net[p][c] >= 0 /\ net'[p][c] < 0) => pc[p] = "handler"]_vars

\* The second update of the rollback loop raised; the request ended with a
\* 500 and a product holds one unit more than at the start.
C28_Witness ==
    /\ failedAt[1] = "rollback"
    /\ pc[1] = "done" /\ response[1].status = 500
    /\ decs[1] = 2 /\ incs[1] = 3
    /\ \E c \in CatalogCodes : stock[c] = stock0[c] + 1 /\ net[1][c] = -1
    /\ payload[2].items = <<>>

\* Units of product c over all lines of all persisted Orders.
Persisted(c) ==
    SumSeq([k \in 1..Len(orders) |->
              SumSeq([j \in 1..Len(orders[k].items) |->
                        IF orders[k].items[j].package_ndc_11 = c
                        THEN orders[k].items[j].quantity ELSE 0])])

NoStorageFailure == \A p \in Procs : failedAt[p] = "none"

\* C29: when no storage call has failed and no create_order is in flight, for
\* every product the initial stock minus the current stock is the sum of the
\* product's quantities over all lines of all persisted Orders; and a request
\* that has returned without a storage failure of its own keeps units
\* subtracted only if its Order is recorded, and then exactly the units of
\* that Order.
C29_StockConservation ==
    /\ (NoStorageFailure /\ \A p \in Procs : ~InFlight(p))
       => \A c \in CatalogCodes : stock0[c] - stock[c] = Persisted(c)
    /\ \A p \in Procs :
          (pc[p] = "done" /\ failedAt[p] = "none")
          => \A c \in CatalogCodes :
                net[p][c] =
                   IF HasOrder(orders, p)
                   THEN SumSeq([j \in 1..Len(response[p].order.items) |->
                                  IF response[p].order.items[j].package_ndc_11 = c
                                  THEN response[p].order.items[j].quantity ELSE 0])
                   ELSE 0

\* Both requests have returned without a storage failure: one has its Order of
\* two lines recorded, the other was rejected after a decrement it put back.
C29_Witness ==
    /\ NoStorageFailure
    /\ \A p \in Procs : pc[p] = "done"
    /\ \E p \in Procs, q \in Procs :
          /\ Status(p) = 201 /\ Len(response[p].order.items) = 2
          /\ Status(q) = 409 /\ decs[q] = 1 /\ incs[q] = 1
    /\ \E c \in CatalogCodes : stock[c] < stock0[c]

\* Units of product c asked by the lines of request p before line k.
RequestedBefore(p, c, k) ==
    SumSeq([j \in 1..(k - 1) |->
              IF payload[p].items[j].package_ndc_11 = c
              THEN payload[p].items[j].quantity ELSE 0])

\* Stock of product c left to request p at its line k when only the orders
\* that finally succeed and the request's own earlier lines are counted.
LeftBySuccessful(p, c, k) ==
    stock0[c] - RequestedBefore(p, c, k)
              - SumSeq([q \in 1..Cardinality(Procs) |->
                          IF q # p /\ Status(q) = 201 THEN Requested(q, c) ELSE 0])

\* Two orders of two lines that ask MaxQty of each product in opposite order,
\* against a stock that covers one of them and not both.
Crossing ==
    /\ \A c \in CatalogCodes : stock0[c] = MaxStock
    /\ payload[1].items = <<Line(NdcA, MaxQty), Line(NdcB, MaxQty)>>
    /\ payload[2].items = <<Line(NdcB, MaxQty), Line(NdcA, MaxQty)>>

\* C30 as claimed: once every request has returned and no storage call has
\* failed, a request answered 409 was short of the rejected product even when
\* only the decrements of the orders that succeeded (and its own earlier
\* lines) are counted; two crossing orders never both end in 409.
C30_NoSpuriousConflict ==
    (NoStorageFailure /\ \A p \in Procs : pc[p] = "done")
    => /\ \A p \in Procs :
             Status(p) = 409
             => LeftBySuccessful(p, response[p].shortage.package_ndc_11, idx[p])
                   < response[p].shortage.requested
       /\ Crossing => \E p \in Procs : Status(p) # 409

\* C30, what the code does: a 409 means that the stock at the moment of the
\* rejected decrement, with every decrement applied and not yet put back,
\* was below the requested quantity; after the rollbacks nothing is missing.
C30_ConflictOnCurrentStock ==
    /\ \A p \in Procs :
          (Status(p) = 409 /\ failedAt[p] = "none")
          => rejStock[p] < response[p].shortage.requested
    /\ (NoStorageFailure /\ \A p \in Procs : Status(p) = 409)
       => stock = stock0

\* Both crossing orders took their first line, were rejected on the second
\* and rolled back: two 409 and the stock as at the start.
C30_Witness ==
    /\ NoStorageFailure
    /\ Crossing
    /\ \A p \in Procs : Status(p) = 409 /\ decs[p] = 1 /\ incs[p] = 1
    /\ stock = stock0

\* A request that passes the validation and names only products of the
\* catalog.
Valid(p) ==
    /\ WellFormed(p)
    /\ \A k \in 1..Len(payload[p].items) :
          payload[p].items[k].package_ndc_11 \in DOMAIN stock0

\* The initial stock of every product covers what all valid requests ask of it.
StockCoversAll ==
    \A c \in CatalogCodes :
        SumSeq([p \in 1..Cardinality(Procs) |->
                  IF Valid(p) THEN Requested(p, c) ELSE 0]) <= stock0[c]

\* Request p met a rejected decrement, compensated, or was answered
\* otherwise than with 201.
Turned(p) ==
    \/ pc[p] \in {"reread", "rollback", "handler"}
    \/ incs[p] > 0
    \/ Status(p) \notin {0, 201}
    \/ pc[p] = "done" /\ Status(p) = 0

\* C31: when the initial stock of every product covers the total asked by
\* all valid requests and no storage call fails, no conditional decrement is
\* rejected in any interleaving (no request reaches the re-read or the
\* rollback loop, no compensation is made) and every valid request that
\* returns is answered 201; stated for each request: it is turned away only
\* if it is not valid, a storage call failed, or the stock does not cover
\* the total.
C31_NoSpuriousConflict ==
    \A p \in Procs :
        Turned(p) => ~(NoStorageFailure /\ Valid(p) /\ StockCoversAll)

\* Two valid requests that together ask exactly the stock of a product have
\* both been answered 201 and the product is sold out.
C31_Witness ==
    /\ NoStorageFailure
    /\ \A p \in Procs : Valid(p) /\ Status(p) = 201
    /\ \E c \in CatalogCodes :
          /\ Requested(1, c) > 0 /\ Requested(2, c) > 0
          /\ Requested(1, c) + Requested(2, c) = stock0[c]
          /\ stock[c] = 0

\* The first n lines of request p as the pairs the forward pass records.
FirstLines(p, n) ==
    [k \in 1..n |-> <<payload[p].items[k].package_ndc_11,
                      payload[p].items[k].quantity>>]

\* Units of product c in the first n applied decrements of request p.
AppliedUpTo(p, c, n) ==
    SumSeq([k \in 1..n |-> IF decremented[p][k][1] = c
                           THEN decremented[p][k][2] ELSE 0])

\* The decrements applied so far are the first lines of the request, in
\* request order; a line is attempted only when all lines before it applied.
InRequestOrder(p) ==
    /\ decs[p] = Len(decremented[p])
    /\ decs[p] <= Len(payload[p].items)
    /\ decremented[p] = FirstLines(p, decs[p])
    /\ pc[p] \in {"update", "reread", "rollback"} => idx[p] = decs[p] + 1

\* The compensations issued so far undo the last applied decrements and
\* nothing else: what request p still holds is what its first decs - incs
\* decrements took.
BackInReverse(p) ==
    /\ incs[p] <= decs[p]
    /\ \A c \in CatalogCodes : net[p][c] = AppliedUpTo(p, c, decs[p] - incs[p])

\* After a rejected decrement or a failure no further line is attempted.
NoLineAfterRejection ==
    \A p \in Procs :
        (pc[p] \in {"reread", "rollback", "handler"} \/ Status(p) # 0)
        => decs'[p] = decs[p] /\ decremented'[p] = decremented[p] /\ idx'[p] = idx[p]

\* Each step of the rollback loop and of the handler's loop adds back one
\* applied decrement, the loop going from the last applied to the first.
EachLoopInReverse ==
    \A p \in Procs :
        incs'[p] # incs[p]
        => /\ pc[p] \in {"rollback", "handler"}
           /\ incs'[p] = incs[p] + 1
           /\ rb[p] \in 1..Len(decremented[p])
           /\ LET done == decremented[p][Len(decremented[p]) - rb[p] + 1]
              IN  stock' = [stock EXCEPT ![done[1]] = @ + done[2]]
           /\ \/ rb'[p] = rb[p] + 1
              \/ rb[p] = Len(decremented[p]) /\ pc'[p] = "done"

\* C32 as claimed: the lines are decremented one at a time in request order,
\* no line is attempted after a rejected one, and on a rejection or a
\* failure the compensations are issued in the reverse of the order of the
\* applied decrements and cover exactly the applied decrements: all of them
\* once a 409 is answered, each at most once in every case.
C32_InOrderAndBack ==
    \A p \in Procs :
        /\ InRequestOrder(p)
        /\ BackInReverse(p)
        /\ Status(p) = 409 => incs[p] = decs[p]

\* C32, what the code does: the forward pass and each of the two rollback
\* loops are as claimed, and a 409 follows the compensation of every applied
\* decrement; the compensations of a request taken together cover the applied
\* decrements exactly once unless the handler ran after the rollback loop.
C32_EachLoopAsClaimed ==
    /\ [](\A p \in Procs :
             /\ InRequestOrder(p)
             /\ incs[p] <= 2 * decs[p]
             /\ Status(p) = 409 => incs[p] = decs[p] /\ BackInReverse(p)
             /\ (pc[p] = "rollback" /\ failedAt[p] = "none") => BackInReverse(p))
    /\ [][NoLineAfterRejection /\ EachLoopInReverse]_vars

\* The rollback loop has put back the second applied decrement, its next
\* update raised, and the handler has just put back the same decrement again.
C32_Witness ==
    /\ pc[1] = "handler" /\ failedAt[1] = "rollback"
    /\ decs[1] = 2 /\ incs[1] = 2 /\ rb[1] = 2
    /\ net[1][decremented[1][2][1]] = -1
    /\ net[1][decremented[1][1][1]] = 1

\* The request names some product on more than one line.
RepeatsProduct(p) ==
    \E j, k \in 1..Len(payload[p].items) :
        j # k /\ payload[p].items[j].package_ndc_11 = payload[p].items[k].package_ndc_11

\* C33: a valid request that runs alone and meets no storage failure returns
\* 201 if and only if, for each product, the sum of the quantities of its
\* lines is at most the stock found at its start, and then the stock has
\* fallen by those sums; otherwise it returns 409 and leaves the stock of
\* every product as it found it. Lines of the same product add up.
C33_RepeatedLinesCumulative ==
    [][\A p \in Procs :
          (Returns(p) /\ solo[p] /\ Valid(p) /\ failedAt'[p] = "none")
          => IF \A c \in CatalogCodes : Requested(p, c) <= pre[p].stock[c]
             THEN /\ Status(p)' = 201
                  /\ \A c \in CatalogCodes :
                        stock'[c] = pre[p].stock[c] - Requested(p, c)
             ELSE /\ Status(p)' = 409
                  /\ stock' = pre[p].stock]_vars

\* Alone, two lines of MaxQty units of one product against MaxStock units:
\* the second line was rejected, the first put back, 409 and the stock as
\* found.
C33_Witness ==
    \E p \in Procs :
        /\ pc[p] = "done" /\ solo[p] /\ failedAt[p] = "none"
        /\ RepeatsProduct(p)
        /\ \E c \in CatalogCodes :
              /\ payload[p].items = <<Line(c, MaxQty), Line(c, MaxQty)>>
              /\ pre[p].stock[c] = MaxStock
              /\ stock[c] = MaxStock
        /\ Status(p) = 409 /\ decs[p] = 1 /\ incs[p] = 1

\* The generator is between two iterations or has ended.
BetweenIterations == gen.pc \in {"build", "end"}

\* C34: with the mirror loaded from the catalogs and the generator as the only
\* client, no mirrored stock is ever negative, and between iterations every
\* product still in the mirror is a product of the pharmacy's catalog whose
\* mirrored stock is at least its stock in the ledger.
C34_MirrorNotBelowLedger ==
    \A f \in Farms : \A k \in 1..Len(pools[f]) :
        /\ pools[f][k].stock >= 0
        /\ BetweenIterations
           => /\ pools[f][k].package_ndc_11 \in DOMAIN catalog_coll[f]
              /\ pools[f][k].stock >= catalog_coll[f][pools[f][k].package_ndc_11].stock

\* Between iterations the mirror of a product is above the ledger (a commit
\* the generator never saw as a success) while another order of the same
\* pharmacy was mirrored.
C34_Witness ==
    /\ BetweenIterations
    /\ stats.created >= 1
    /\ \E f \in Farms : \E k \in 1..Len(pools[f]) :
          /\ pools[f][k].stock > catalog_coll[f][pools[f][k].package_ndc_11].stock
          /\ \E c \in DOMAIN catalog_coll[f] :
                /\ catalog_coll[f][c].stock < MirrorCatalog[f][c].stock
                /\ \A j \in 1..Len(pools[f]) :
                      pools[f][j].package_ndc_11 = c
                      => pools[f][j].stock = catalog_coll[f][c].stock

\* Number of Order records over all pharmacies.
PharmacyOrders == SumSeq([k \in 1..Len(FarmOrder) |-> Len(orders_coll[FarmOrder[k]])])

\* The pharmacy Orders the orchestrator record rec points to.
OrdersOf(rec) ==
    {j \in 1..Len(orders_coll[rec.id_farmacia]) :
        /\ orders_coll[rec.id_farmacia][j].order_id = rec.farmacia_order_id
        /\ orders_coll[rec.id_farmacia][j].external_order_id = rec.external_order_id}

\* C35: with the generator as the only client, in every state the created
\* counter is at most the number of orchestrator records, which is at most
\* the number of pharmacy Orders; every order the orchestrator answered with
\* a 2xx, and so every 2xx the generator saw, has exactly one orchestrator
\* record, and every orchestrator record points to exactly one pharmacy Order.
C35_CreatedRecordsOrders ==
    /\ stats.created <= Len(orders_farmahorra)
    /\ Len(orders_farmahorra) <= PharmacyOrders
    /\ \A n \in Attempts :
          Is2xx(call[n].out.status)
          => Cardinality(RecordsOf(call[n].payload.external_order_id)) = 1
    /\ \A k \in 1..Len(orders_farmahorra) :
          Cardinality(OrdersOf(orders_farmahorra[k])) = 1
    /\ Is2xx(gen.status) => Is2xx(call[gen.i].out.status)

\* The run has ended: one order was created, recorded and counted; of another
\* the pharmacy holds the Order while the orchestrator has no record of it and
\* the generator did not count it as created.
C35_Witness ==
    /\ gen.pc = "end"
    /\ stats.created = 1
    /\ Len(orders_farmahorra) = 1
    /\ PharmacyOrders = 2
    /\ \E f \in Farms : \E j \in 1..Len(orders_coll[f]) :
          RecordsOf(orders_coll[f][j].external_order_id) = {}

\* C36 as claimed: in every reachable state the orchestrator holds at most one
\* record per external order id, also when two create_order calls carry the
\* same id.
C36_OneRecordPerExternalId ==
    \A e \in ExternalIds : Cardinality(RecordsOf(e)) <= 1

\* C36, what the code does: every call answered 201 has inserted one record
\* more, whatever ids the store already held, and a record is never changed
\* or removed; get_order answers one of the records that carry the id.
C36_OneRecordPerCall ==
    /\ Len(orders_farmahorra) =
          Cardinality({n \in Attempts : Is2xx(call[n].out.status)})
    /\ got.status = 200
       => \E k \in RecordsOf(got.order_id) : got.order = orders_farmahorra[k]

\* Two calls with the same external order id were both answered 201: two
\* records carry the id, they point to two different pharmacy Orders, and
\* get_order has answered one of them.
C36_Witness ==
    \E e \in ExternalIds :
        /\ Cardinality(RecordsOf(e)) = 2
        /\ \A n \in Attempts : ExtId(n) = e /\ call[n].out.status = 201
        /\ orders_farmahorra[1].farmacia_order_id # orders_farmahorra[2].farmacia_order_id
        /\ got.status = 200 /\ got.order_id = e
        /\ got.order = orders_farmahorra[2]

\* Attempt n submitted an order.
Submitted(n) == call[n].calls = 1

\* The step builds an order (an iteration begins and leaves a payload).
BuildsOrder == gen'.i # gen.i /\ gen'.payload # NoPayload

\* C37: the sequence counter starts at the configured start value, a step
\* that builds an order adds exactly one to it and names the order
\* FAC-WWW-YYYYY with WWW of the picked pharmacy and YYYYY the new value
\* written with at least five digits, every other step (a no-candidate
\* attempt among them) leaves it as it is, and the external ids of the orders
\* submitted in a run differ pairwise, in their YYYYY already, within a
\* pharmacy and across pharmacies.
C37_SequenceCounter ==
    /\ [](/\ gen.i = 0 => counter \in StartSeqs
          /\ \A n, m \in Attempts :
                (n # m /\ Submitted(n) /\ Submitted(m))
                => /\ ExtId(n) # ExtId(m)
                   /\ ExtId(n)[3] # ExtId(m)[3])
    /\ [][IF BuildsOrder
          THEN /\ counter' = counter + 1
               /\ gen'.payload.external_order_id =
                     <<"FAC", FARM_TO_WWW[gen'.picked[1]], Format05d(counter')>>
               /\ Len(Format05d(counter')) >= 5
          ELSE counter' = counter]_vars

\* Both iterations submitted an order, to two pharmacies: the ids end in
\* 99999 and 100000 and the counter stands at 100000.
C37_Witness ==
    /\ gen.i = 2
    /\ Submitted(1) /\ Submitted(2)
    /\ call[1].payload.id_farmacia # call[2].payload.id_farmacia
    /\ ExtId(1)[3] = <<"9", "9", "9", "9", "9">>
    /\ ExtId(2)[3] = <<"1", "0", "0", "0", "0", "0">>
    /\ counter = Last5 + 1

\* The POSTs that began in the second that begins at tick t.
StartsIn(t) ==
    {k \in 1..Len(starts) : t <= starts[k].at /\ starts[k].at < t + TicksPerSecond}

\* Between the end of the attempt before it (or the 0.0 last_ts begins with)
\* and its own start, every POST lets at least 1 / max(0.1, qps_max) pass,
\* with a skipped attempt in between twice that.
MinIntervalKept ==
    /\ \A k \in 1..Len(starts) :
          (starts[k].at - starts[k].after) * Max(1, qps_max) >= 10 * TicksPerSecond
    /\ \A k \in 1..(Len(starts) - 1) :
          starts[k + 1].attempt > starts[k].attempt + 1
          => (starts[k + 1].at - starts[k].at) * Max(1, qps_max)
                >= 2 * 10 * TicksPerSecond

\* C38 as claimed: the minimum interval is kept, and so no second holds the
\* start of more than qps_max requests.
C38_RateLimit ==
    /\ MinIntervalKept
    /\ \A t \in 0..MaxClock : 10 * Cardinality(StartsIn(t)) <= qps_max

\* C38 as the code has it: the minimum interval is kept, and so no second
\* holds the start of more requests than max(0.1, qps_max) rounded up to a
\* whole number.
C38_MinInterval ==
    /\ MinIntervalKept
    /\ \A t \in 0..MaxClock : 10 * Cardinality(StartsIn(t)) < Max(1, qps_max) + 10

\* At 1.5 requests per second two POSTs began within one second, the second
\* exactly the minimum interval after the first had returned.
C38_Witness ==
    /\ qps_max = 15
    /\ Len(starts) = 2
    /\ starts[2].at - starts[2].after = MinInterval(qps_max)
    /\ starts[2].after = starts[1].at
    /\ \E t \in 0..MaxClock : Cardinality(StartsIn(t)) = 2

\* ---------------------------------------------------------------------
\* C39: the pipeline runner starts the unit tests first and no script if they
\* fail; after that the scripts a..h are started in the order of the list,
\* each only after the child before it has ended with return code 0; the
\* first child that ends with another return code is the last one started,
\* and the runner exits with 1; it exits with 0 only after all of them ended
\* with 0.
InOrder == <<unittest>> \o scripts

C39_TestsThenScriptsInOrder ==
    /\ Len(ran) <= Len(InOrder)
    /\ \A k \in 1..Len(ran) : ran[k].cmd = InOrder[k]
    /\ \A k \in 1..(Len(ran) - 1) : ran[k].returncode = <<0>>
    /\ pipeline.exit = <<1>>
       => /\ ran # <<>>
          /\ ran[Len(ran)].returncode \notin {<<>>, <<0>>}
    /\ pipeline.exit = <<0>>
       => /\ Len(ran) = Len(InOrder)
          /\ ran[Len(ran)].returncode = <<0>>
    /\ (ran # <<>> /\ ran[Len(ran)].returncode \notin {<<>>, <<0>>})
       => pipeline.pc \in {"tested", "returned", "exited"}

\* C39 (witness): the third script was killed by a signal after the tests and
\* two scripts had passed, and the runner has exited with 1.
C39_Witness ==
    /\ Len(ran) = 4
    /\ ran[4].cmd = "scripts/c_import_ndc_to_mongo.py"
    /\ ran[4].returncode = <<-1>>
    /\ pipeline.exit = <<1>>

====
